---------------------------- MODULE Spec2Model ----------------------------
(***************************************************************************)
(* joi-temporal: the extension synthesizer (makeExtension), the registry   *)
(* of the eight Temporal kinds, and the host (Joi) validate() pipeline     *)
(* that drives coerce, the base validate step and the attached rules.      *)
(*                                                                         *)
(* JavaScript values are records [tag, s, c, id]:                          *)
(*   tag  "undefined" | "null" | "number" | "boolean" | "object" |         *)
(*        "string" | one of the eight kind names (a Temporal instance)     *)
(*   s    the text of a string; the zone identifier of a zonedDateTime     *)
(*   c    the numeric fields of a Temporal instance (a tuple)              *)
(*   id   the object identity (0 for primitives)                           *)
(***************************************************************************)
EXTENDS Integers, Sequences, FiniteSets, TLC

\* ------------------------------------------------------------------ bounds

\* Rule attachments per schema.
MaxRules == 2
\* Clock ticks the wall clock may advance in one behaviour.
MaxClock == 1

\* ------------------------------------------------------------- text helpers

Digits == <<"0", "1", "2", "3", "4", "5", "6", "7", "8", "9">>

IsDigit(ch) == \E i \in 1..10 : Digits[i] = ch

DigitVal(ch) == (CHOOSE i \in 1..10 : Digits[i] = ch) - 1

CharAt(s, i) == IF i >= 1 /\ i <= Len(s) THEN SubSeq(s, i, i) ELSE ""

\* TRUE iff s[from..from+n-1] exists and is all digits.
AllDigits(s, from, n) ==
    /\ from >= 1
    /\ from + n - 1 <= Len(s)
    /\ \A i \in from..(from + n - 1) : IsDigit(CharAt(s, i))

RECURSIVE NumAt(_, _, _)
\* The decimal number written in s[from..from+n-1].
NumAt(s, from, n) ==
    IF n = 0 THEN 0
    ELSE NumAt(s, from, n - 1) * 10 + DigitVal(CharAt(s, from + n - 1))

RECURSIVE NatToStr(_)
NatToStr(n) == IF n < 10 THEN Digits[n + 1] ELSE NatToStr(n \div 10) \o Digits[(n % 10) + 1]

Pad2(n) == IF n < 10 THEN "0" \o NatToStr(n) ELSE NatToStr(n)

Pad4(n) ==
    IF n < 10 THEN "000" \o NatToStr(n)
    ELSE IF n < 100 THEN "00" \o NatToStr(n)
    ELSE IF n < 1000 THEN "0" \o NatToStr(n)
    ELSE NatToStr(n)

\* ---------------------------------------------------------------- calendar

IsLeap(y) == (y % 4 = 0 /\ y % 100 # 0) \/ y % 400 = 0

DaysInMonth(y, m) ==
    IF m = 2 THEN (IF IsLeap(y) THEN 29 ELSE 28)
    ELSE IF m \in {4, 6, 9, 11} THEN 30 ELSE 31

\* Days since 1970-01-01 of the day d of shifted month mp (0 = March) in
\* shifted year yy (a year that starts on March 1).
DaysFromShifted(yy, mp, d) ==
    (yy \div 400) * 146097
    + (yy % 400) * 365 + (yy % 400) \div 4 - (yy % 400) \div 100
    + (153 * mp + 2) \div 5 + d - 1
    - 719468

\* Days since 1970-01-01 of a proleptic Gregorian date.
DaysFromCivil(y, m, d) == DaysFromShifted(IF m <= 2 THEN y - 1 ELSE y, (m + 9) % 12, d)

\* The year of its 400-year era that day doe of the era falls in.
YearOfEra(doe) == (doe - doe \div 1460 + doe \div 36524 - doe \div 146096) \div 365

\* The day of the shifted year yoe that day doe of the era is.
DayOfYear(doe, yoe) == doe - (365 * yoe + yoe \div 4 - yoe \div 100)

CivilFromParts(era, yoe, doy, mp) ==
    <<yoe + era * 400 + (IF mp >= 10 THEN 1 ELSE 0),
      IF mp < 10 THEN mp + 3 ELSE mp - 9,
      doy - (153 * mp + 2) \div 5 + 1>>

CivilFromDoy(era, yoe, doy) == CivilFromParts(era, yoe, doy, (5 * doy + 2) \div 153)

CivilFromYoe(era, doe, yoe) == CivilFromDoy(era, yoe, DayOfYear(doe, yoe))

\* The date <<y, m, d>> that lies z days after 1970-01-01.
CivilFromDays(z) ==
    CivilFromYoe((z + 719468) \div 146097, (z + 719468) % 146097,
                 YearOfEra((z + 719468) % 146097))

ValidDate(y, m, d) == m \in 1..12 /\ d >= 1 /\ d <= DaysInMonth(y, m)

\* A seconds field of 60 (a leap second) is accepted and read as 59.
ValidTime(h, mi, sec) == h \in 0..23 /\ mi \in 0..59 /\ sec \in 0..60

ClampSec(sec) == IF sec = 60 THEN 59 ELSE sec


\* ------------------------------------------------- ISO 8601 strings (Temporal)
\* The part of Temporal's string grammar the inputs below use: extended
\* format, four-digit years, whole seconds.
\*   date        YYYY-MM-DD
\*   time        HH:MM | HH:MM:SS
\*   offset      Z | +HH:MM | -HH:MM
\*   annotation  [Zone/Name]
\*   date-time   date [ T time [ offset ] ] [ annotation ]

\* The time zones of the model's tz database.
KnownZones == {"UTC", "Europe/Berlin", "America/New_York"}

\* The UTC offset, in seconds, of a zone in month m (daylight saving time
\* by whole months: the transition months March, October and November are
\* read as standard time, and no input of the model falls in them).
ZoneOffsetSec(zone, m) ==
    IF zone = "Europe/Berlin" THEN (IF m \in 4..9 THEN 7200 ELSE 3600)
    ELSE IF zone = "America/New_York" THEN (IF m \in 4..9 THEN 0 - 14400 ELSE 0 - 18000)
    ELSE 0

NoParse == [ok |-> FALSE, y |-> 0, m |-> 0, d |-> 0, hasTime |-> FALSE,
            h |-> 0, mi |-> 0, sec |-> 0, off |-> "none", offSec |-> 0, zone |-> ""]

\* Length of the time that starts at s[p]: 5 (HH:MM), 8 (HH:MM:SS), 0 (none).
TimeLen(s, p) ==
    IF ~(AllDigits(s, p, 2) /\ CharAt(s, p + 2) = ":" /\ AllDigits(s, p + 3, 2)) THEN 0
    ELSE IF CharAt(s, p + 5) = ":" THEN (IF AllDigits(s, p + 6, 2) THEN 8 ELSE 0)
    ELSE 5

\* Length of the UTC offset that starts at s[p]: 1 (Z), 6 (+HH:MM), 0 (none).
OffsetLen(s, p) ==
    IF CharAt(s, p) = "Z" THEN 1
    ELSE IF /\ CharAt(s, p) \in {"+", "-"}
            /\ AllDigits(s, p + 1, 2)
            /\ CharAt(s, p + 3) = ":"
            /\ AllDigits(s, p + 4, 2)
         THEN 6
    ELSE 0

OffsetSecAt(s, p) ==
    (IF CharAt(s, p) = "-" THEN 0 - 1 ELSE 1)
    * (NumAt(s, p + 1, 2) * 3600 + NumAt(s, p + 4, 2) * 60)

\* The tail of a date-time string from s[q], after the offset: an
\* [annotation] or nothing, to the end of the string.
TailOK(s, q) ==
    \/ q = Len(s) + 1
    \/ /\ CharAt(s, q) = "["
       /\ CharAt(s, Len(s)) = "]"
       /\ Len(s) - q >= 2
       /\ SubSeq(s, q + 1, Len(s) - 1) \in KnownZones

TailZone(s, q) == IF q = Len(s) + 1 THEN "" ELSE SubSeq(s, q + 1, Len(s) - 1)

\* The fields read, checked for range (month 13, February 31, hour 25); ol
\* is the length of the offset.
ParsedFields(s, y, m, d, hasT, h, mi, sec, p, ol) ==
    IF ~TailOK(s, p + ol) \/ ~ValidDate(y, m, d) \/ ~ValidTime(h, mi, sec)
    THEN NoParse
    ELSE [ok |-> TRUE, y |-> y, m |-> m, d |-> d, hasTime |-> hasT,
          h |-> h, mi |-> mi, sec |-> ClampSec(sec),
          off |-> IF ol = 0 THEN "none" ELSE IF ol = 1 THEN "Z" ELSE "num",
          offSec |-> IF ol = 6 THEN OffsetSecAt(s, p) ELSE 0,
          zone |-> TailZone(s, p + ol)]

\* The date-time string s from its eleventh character: hasT says that a T
\* stands there, tl is the length of the time after it.
ParseAfterDate(s, hasT, tl) ==
    IF hasT /\ tl = 0 THEN NoParse
    ELSE IF ~hasT
    THEN ParsedFields(s, NumAt(s, 1, 4), NumAt(s, 6, 2), NumAt(s, 9, 2), FALSE,
                      0, 0, 0, 11, 0)
    ELSE ParsedFields(s, NumAt(s, 1, 4), NumAt(s, 6, 2), NumAt(s, 9, 2), TRUE,
                      NumAt(s, 12, 2), NumAt(s, 15, 2),
                      IF tl = 8 THEN NumAt(s, 18, 2) ELSE 0,
                      12 + tl, OffsetLen(s, 12 + tl))

\* A date-time string read into its fields; ok is FALSE when s is not one,
\* or when a field is out of range.
ParseDateTimeString(s) ==
    IF ~(/\ AllDigits(s, 1, 4) /\ CharAt(s, 5) = "-"
         /\ AllDigits(s, 6, 2) /\ CharAt(s, 8) = "-"
         /\ AllDigits(s, 9, 2))
    THEN NoParse
    ELSE IF CharAt(s, 11) = "T" THEN ParseAfterDate(s, TRUE, TimeLen(s, 12))
    ELSE ParseAfterDate(s, FALSE, 0)

\* The time-only string s whose time starts at s[p0] and is tl long, with
\* an offset ol long after it.
ParsedTime(s, p0, tl, ol, sec) ==
    IF tl = 0 \/ ol = 1 \/ p0 + tl + ol # Len(s) + 1 THEN NoParse
    ELSE IF ~ValidTime(NumAt(s, p0, 2), NumAt(s, p0 + 3, 2), sec) THEN NoParse
    ELSE [NoParse EXCEPT !.ok = TRUE, !.hasTime = TRUE,
                         !.h = NumAt(s, p0, 2), !.mi = NumAt(s, p0 + 3, 2),
                         !.sec = ClampSec(sec)]

ParseTimeFrom(s, p0, tl) ==
    ParsedTime(s, p0, tl, OffsetLen(s, p0 + tl),
               IF tl = 8 THEN NumAt(s, p0 + 6, 2) ELSE 0)

\* A time-only string: [T] time [offset], with no Z.
ParseTimeString(s) ==
    IF CharAt(s, 1) = "T" THEN ParseTimeFrom(s, 2, TimeLen(s, 2))
    ELSE ParseTimeFrom(s, 1, TimeLen(s, 1))

\* Seconds since the epoch of a local date-time at a UTC offset.
EpochSec(y, m, d, h, mi, sec, offSec) ==
    DaysFromCivil(y, m, d) * 86400 + h * 3600 + mi * 60 + sec - offSec

\* Floor division and modulus by 86400 (epoch seconds may be negative).
EpochDay(e) == e \div 86400
SecOfDay(e) == e % 86400

FieldsOf(ymd, sod) ==
    <<ymd[1], ymd[2], ymd[3], sod \div 3600, (sod % 3600) \div 60, sod % 60>>

\* The fields <<y, m, d, h, mi, sec>> of epoch second e seen at offset offSec.
LocalFields(e, offSec) ==
    FieldsOf(CivilFromDays(EpochDay(e + offSec)), SecOfDay(e + offSec))

\* ------------------------------------------------------ ISO 8601 durations
\*   [+|-] P [nY] [nM] [nW] [nD] [ T [nH] [nM] [nS] ]   (at least one field)
\* The fields of a duration are <<years, months, weeks, days, hours, minutes,
\* seconds>>, all of one sign.

RECURSIVE DigitRun(_, _)
\* How many digits stand at s[p..].
DigitRun(s, p) == IF IsDigit(CharAt(s, p)) THEN 1 + DigitRun(s, p + 1) ELSE 0

DurUnits == <<"Y", "M", "W", "D", "H", "M", "S">>

NoDuration == [ok |-> FALSE, c |-> <<0, 0, 0, 0, 0, 0, 0>>]

\* The units that may stand next: from stage to D before the T, to S after.
DurHits(stage, inTime, u) ==
    {j \in stage..(IF inTime THEN 7 ELSE 4) : DurUnits[j] = u}

Least(S) == CHOOSE k \in S : \A k2 \in S : k <= k2

RECURSIVE DurScan(_, _, _, _, _, _)
RECURSIVE DurScanField(_, _, _, _, _, _)
\* The field that starts at s[p]: n digits, then a unit among hits.
DurScanField(s, p, inTime, acc, n, hits) ==
    IF n = 0 \/ hits = {} THEN NoDuration
    ELSE DurScan(s, p + n + 1, Least(hits) + 1, inTime, FALSE,
                 [acc EXCEPT ![Least(hits)] = NumAt(s, p, n)])

\* Reads the fields from s[p..]; stage is the first unit that may still
\* come, inTime says that the T has been passed (units 5..7, else 1..4),
\* fresh says that a field must follow (at the start, and right after the T).
DurScan(s, p, stage, inTime, fresh, acc) ==
    IF p > Len(s) THEN (IF fresh THEN NoDuration ELSE [ok |-> TRUE, c |-> acc])
    ELSE IF CharAt(s, p) = "T" THEN
        (IF inTime THEN NoDuration ELSE DurScan(s, p + 1, 5, TRUE, TRUE, acc))
    ELSE DurScanField(s, p, inTime, acc, DigitRun(s, p),
                     DurHits(stage, inTime, CharAt(s, p + DigitRun(s, p))))

\* The fields r read after the P, with the sign of the string.
DurationSigned(s, p0, r) ==
    IF CharAt(s, p0) # "P" THEN NoDuration
    ELSE IF ~r.ok THEN NoDuration
    ELSE IF CharAt(s, 1) = "-" THEN [ok |-> TRUE, c |-> [i \in 1..7 |-> 0 - r.c[i]]]
    ELSE r

ParseDurationString(s) ==
    IF CharAt(s, 1) \in {"+", "-"}
    THEN DurationSigned(s, 2, DurScan(s, 3, 1, FALSE, TRUE, <<0, 0, 0, 0, 0, 0, 0>>))
    ELSE DurationSigned(s, 1, DurScan(s, 2, 1, FALSE, TRUE, <<0, 0, 0, 0, 0, 0, 0>>))

\* Temporal.Duration.prototype.sign
DurationSign(c) ==
    IF \E i \in 1..7 : c[i] < 0 THEN 0 - 1
    ELSE IF \E i \in 1..7 : c[i] > 0 THEN 1
    ELSE 0

\* Day d constrained to the length of month m of year y, as days since the
\* epoch.
ConstrainedDay(y, m, d) ==
    DaysFromCivil(y, m, IF d > DaysInMonth(y, m) THEN DaysInMonth(y, m) ELSE d)

\* The date `total` months after year 0, day d.
DateOfMonths(total, d) == ConstrainedDay(total \div 12, (total % 12) + 1, d)

\* The date reached from <<y, m, d>> by adding years and months (the day
\* constrained to the month's length), as days since the epoch.
AddYearsMonths(date, years, months) ==
    DateOfMonths(date[1] * 12 + (date[2] - 1) + years * 12 + months, date[3])

\* The length in seconds of duration c counted from the date relativeTo.
DurationTotal(c, relativeTo) ==
    (AddYearsMonths(relativeTo, c[1], c[2]) + 7 * c[3] + c[4]
     - DaysFromCivil(relativeTo[1], relativeTo[2], relativeTo[3])) * 86400
    + c[5] * 3600 + c[6] * 60 + c[7]

\* ------------------------------------------------------------------ values

Val(tag, s, c, id) == [tag |-> tag, s |-> s, c |-> c, id |-> id]

Undefined == Val("undefined", "", <<>>, 0)
Null      == Val("null", "", <<>>, 0)
Str(s)    == Val("string", s, <<>>, 0)

\* typeof value === "string"
IsString(v) == v.tag = "string"

\* value == null
IsNullish(v) == v.tag \in {"undefined", "null"}

\* The outcome of a call that may throw: the value returned, or thrown = TRUE.
Returned(v) == [thrown |-> FALSE, value |-> v]
Thrown      == [thrown |-> TRUE, value |-> Undefined]

\* A Temporal.X.from(text) result: a new object (identity id) or a RangeError.
FromFields(kind, r, c, s, id) ==
    IF r THEN Returned(Val(kind, s, c, id)) ELSE Thrown

\* ------------------------------------------------------------------- clock
\* The wall clock is a tick counter; tick k stands for the UTC moment
\* ClockEpoch + k * ClockStep, so that the current date and the current time
\* of day both change from one tick to the next.

ClockEpoch == EpochSec(2021, 1, 31, 8, 59, 59, 0)
ClockStep  == 30 * 86400 + 5 * 3600 + 1

\* <<y, m, d, h, mi, sec>> at tick k (the system time zone is UTC).
Moment(k) == LocalFields(ClockEpoch + k * ClockStep, 0)

\* ------------------------------------------------- Temporal, kind by kind

PlainDateOf(r, id) ==
    FromFields("plainDate", r.ok /\ r.off # "Z", <<r.y, r.m, r.d>>, "", id)

PlainDateFrom(text, id) == PlainDateOf(ParseDateTimeString(text), id)

PlainTimeOf(t, id) ==
    FromFields("plainTime", t.ok /\ t.hasTime /\ t.off # "Z",
               <<t.h, t.mi, t.sec>>, "", id)

\* A date-time string with a time, or a time-only string.
PlainTimeFrom(text, id) ==
    IF ParseDateTimeString(text).ok
    THEN PlainTimeOf(ParseDateTimeString(text), id)
    ELSE PlainTimeOf(ParseTimeString(text), id)

PlainDateTimeOf(r, id) ==
    FromFields("plainDateTime", r.ok /\ r.off # "Z",
               <<r.y, r.m, r.d, r.h, r.mi, r.sec>>, "", id)

PlainDateTimeFrom(text, id) == PlainDateTimeOf(ParseDateTimeString(text), id)

\* The bracketed zone is required; a numeric offset must be the zone's own
\* offset zoff at that local time (option offset: "reject"), a Z gives the
\* exact instant. The fields are <<epoch seconds, offset seconds>>.
ZonedDateTimeOf(r, zoff, id) ==
    FromFields("zonedDateTime",
               r.ok /\ r.zone # "" /\ (r.off = "num" => r.offSec = zoff),
               <<EpochSec(r.y, r.m, r.d, r.h, r.mi, r.sec,
                          IF r.off = "Z" THEN 0 ELSE zoff), zoff>>,
               r.zone, id)

ZonedDateTimeIn(r, id) == ZonedDateTimeOf(r, ZoneOffsetSec(r.zone, r.m), id)

ZonedDateTimeFrom(text, id) == ZonedDateTimeIn(ParseDateTimeString(text), id)

\* A time and an offset (or Z) are required. The field is <<epoch seconds>>.
InstantOf(r, id) ==
    FromFields("instant", r.ok /\ r.hasTime /\ r.off # "none",
               <<EpochSec(r.y, r.m, r.d, r.h, r.mi, r.sec, r.offSec)>>, "", id)

InstantFrom(text, id) == InstantOf(ParseDateTimeString(text), id)

DurationOf(r, id) == FromFields("duration", r.ok, r.c, "", id)

DurationFrom(text, id) == DurationOf(ParseDurationString(text), id)

PlainYearMonthOf(r, id) ==
    FromFields("plainYearMonth", r.ok /\ r.off # "Z", <<r.y, r.m>>, "", id)

\* "YYYY-MM", or a date string.
PlainYearMonthFrom(text, id) ==
    IF Len(text) = 7 /\ AllDigits(text, 1, 4) /\ CharAt(text, 5) = "-"
       /\ AllDigits(text, 6, 2)
    THEN FromFields("plainYearMonth", NumAt(text, 6, 2) \in 1..12,
                    <<NumAt(text, 1, 4), NumAt(text, 6, 2)>>, "", id)
    ELSE PlainYearMonthOf(ParseDateTimeString(text), id)

PlainMonthDayOf(r, id) ==
    FromFields("plainMonthDay", r.ok /\ r.off # "Z", <<r.m, r.d>>, "", id)

\* "MM-DD" (from p0 = 1) and "--MM-DD" (from p0 = 3) are checked against the
\* leap year 1972; any other text is a date string.
PlainMonthDayAt(text, p0, id) ==
    IF Len(text) = p0 + 4 /\ AllDigits(text, p0, 2)
       /\ CharAt(text, p0 + 2) = "-" /\ AllDigits(text, p0 + 3, 2)
    THEN FromFields("plainMonthDay",
                    ValidDate(1972, NumAt(text, p0, 2), NumAt(text, p0 + 3, 2)),
                    <<NumAt(text, p0, 2), NumAt(text, p0 + 3, 2)>>, "", id)
    ELSE PlainMonthDayOf(ParseDateTimeString(text), id)

PlainMonthDayFrom(text, id) ==
    IF Len(text) = 7 /\ SubSeq(text, 1, 2) = "--"
    THEN PlainMonthDayAt(text, 3, id)
    ELSE PlainMonthDayAt(text, 1, id)

Sign(n) == IF n < 0 THEN 0 - 1 ELSE IF n > 0 THEN 1 ELSE 0

RECURSIVE LexCompare(_, _, _)
\* Field-by-field comparison of two tuples of the same length, from field i.
LexCompare(a, b, i) ==
    IF i > Len(a) THEN 0
    ELSE IF a[i] # b[i] THEN Sign(a[i] - b[i])
    ELSE LexCompare(a, b, i + 1)

\* Variant of DurationCompare: the durations are compared field by field,
\* from the years down, without being brought to a common length.
DurationCompareFieldwise(a, b, relativeTo) == LexCompare(a.c, b.c, 1)

\* Temporal.Duration.compare(a, b, { relativeTo }): equal field by field is
\* 0; else the lengths counted from relativeTo are compared.
DurationCompare(a, b, relativeTo) ==
    IF a.c = b.c THEN 0
    ELSE Sign(DurationTotal(a.c, relativeTo) - DurationTotal(b.c, relativeTo))

Today(clock) == SubSeq(Moment(clock), 1, 3)

\* x.toString(): the canonical text of a Temporal instance.
DateText(y, m, d) == Pad4(y) \o "-" \o Pad2(m) \o "-" \o Pad2(d)

TimeText(h, mi, sec) == Pad2(h) \o ":" \o Pad2(mi) \o ":" \o Pad2(sec)

Abs(n) == IF n < 0 THEN 0 - n ELSE n

OffsetText(off) ==
    (IF off < 0 THEN "-" ELSE "+") \o Pad2(Abs(off) \div 3600) \o ":"
    \o Pad2((Abs(off) % 3600) \div 60)

DurField(n, unit) == IF n = 0 THEN "" ELSE NatToStr(Abs(n)) \o unit

DurationParts(sign, date, time) ==
    (IF sign < 0 THEN "-" ELSE "") \o "P" \o date
    \o (IF time # "" THEN "T" \o time ELSE IF date = "" THEN "T0S" ELSE "")

DurationText(c) ==
    DurationParts(DurationSign(c),
                  DurField(c[1], "Y") \o DurField(c[2], "M") \o DurField(c[3], "W")
                  \o DurField(c[4], "D"),
                  DurField(c[5], "H") \o DurField(c[6], "M") \o DurField(c[7], "S"))

DateTimeText(f) == DateText(f[1], f[2], f[3]) \o "T" \o TimeText(f[4], f[5], f[6])

ToText(v) ==
    CASE v.tag = "plainDate" -> DateText(v.c[1], v.c[2], v.c[3])
      [] v.tag = "plainTime" -> TimeText(v.c[1], v.c[2], v.c[3])
      [] v.tag = "plainDateTime" -> DateTimeText(v.c)
      [] v.tag = "zonedDateTime" ->
            DateTimeText(LocalFields(v.c[1], v.c[2])) \o OffsetText(v.c[2])
            \o "[" \o v.s \o "]"
      [] v.tag = "instant" -> DateTimeText(LocalFields(v.c[1], 0)) \o "Z"
      [] v.tag = "duration" -> DurationText(v.c)
      [] v.tag = "plainYearMonth" -> Pad4(v.c[1]) \o "-" \o Pad2(v.c[2])
      [] v.tag = "plainMonthDay" -> Pad2(v.c[1]) \o "-" \o Pad2(v.c[2])
      [] v.tag = "string" -> v.s
      [] OTHER -> v.tag

\* ---------------------------------------------------------------- registry
\* The eight TypeConfig records of the extensions array, field by field.

KindNames == <<"plainDate", "plainTime", "plainDateTime", "zonedDateTime",
               "instant", "duration", "plainYearMonth", "plainMonthDay">>

Kinds == {KindNames[i] : i \in 1..Len(KindNames)}

\* config.check: v instanceof Temporal.<Kind>
check(kind, v) == v.tag = kind

\* config.parse: Temporal.<Kind>.from(text); id is the identity of the new
\* object.
parse(kind, text, id) ==
    CASE kind = "plainDate"      -> PlainDateFrom(text, id)
      [] kind = "plainTime"      -> PlainTimeFrom(text, id)
      [] kind = "plainDateTime"  -> PlainDateTimeFrom(text, id)
      [] kind = "zonedDateTime"  -> ZonedDateTimeFrom(text, id)
      [] kind = "instant"        -> InstantFrom(text, id)
      [] kind = "duration"       -> DurationFrom(text, id)
      [] kind = "plainYearMonth" -> PlainYearMonthFrom(text, id)
      [] kind = "plainMonthDay"  -> PlainMonthDayFrom(text, id)

\* Variant of HasCompare: every config has a compare function.
HasCompareAlways(kind) == kind \in Kinds

\* Whether the config has a compare function.
HasCompare(kind) == kind # "plainMonthDay"

\* Variant of compare: zoned date-times are compared by their wall-clock
\* reading (the local date and time) instead of their instant.
compareWallClock(kind, a, b, clock) ==
    CASE kind = "zonedDateTime" -> Sign((a.c[1] + a.c[2]) - (b.c[1] + b.c[2]))
      [] kind = "instant" -> Sign(a.c[1] - b.c[1])
      [] kind = "duration" -> DurationCompare(a, b, Today(clock))
      [] OTHER -> LexCompare(a.c, b.c, 1)

\* Variant of compare: the duration comparator's reference date is taken
\* once, when the extension is built (the clock's first tick).
compareStaleDate(kind, a, b, clock) ==
    CASE kind \in {"zonedDateTime", "instant"} -> Sign(a.c[1] - b.c[1])
      [] kind = "duration" -> DurationCompare(a, b, Today(0))
      [] OTHER -> LexCompare(a.c, b.c, 1)

\* config.compare(a, b), read at clock tick `clock` (only the duration
\* comparator reads the clock: relativeTo is Temporal.Now.plainDateISO()).
compare(kind, a, b, clock) ==
    CASE kind \in {"zonedDateTime", "instant"} -> Sign(a.c[1] - b.c[1])
      [] kind = "duration" -> DurationCompare(a, b, Today(clock))
      [] OTHER -> LexCompare(a.c, b.c, 1)

\* Whether the config has a now function.
HasNow(kind) == kind \in {"plainDate", "plainTime", "plainDateTime"}

\* config.now(): Temporal.Now.plain{Date,Time,DateTime}ISO() at tick `clock`.
NowOf(kind, f, id) ==
    CASE kind = "plainDate" -> Val(kind, "", SubSeq(f, 1, 3), id)
      [] kind = "plainTime" -> Val(kind, "", SubSeq(f, 4, 6), id)
      [] kind = "plainDateTime" -> Val(kind, "", f, id)

now(kind, tick, id) == NowOf(kind, Moment(tick), id)

\* The names of config.extraRules.
ExtraRules(kind) ==
    CASE kind = "zonedDateTime" -> {"timezone"}
      [] kind = "duration" -> {"positive", "negative", "nonzero"}
      [] OTHER -> {}

\* ----------------------------------------------------------- makeExtension

\* const p = `temporal.${config.name}`; the code `${p}.${rule}`.
Code(kind, rule) == "temporal." \o kind \o "." \o rule

NoError == [code |-> "", ctx |-> ""]

\* helpers.error(code, context): the context is the limit or the timezone.
Error(code, ctx) == [code |-> code, ctx |-> ctx]

\* The rule names of CHECKS, in table order.
CHECKS == <<"min", "max", "gt", "lt">>

ComparisonRules == {CHECKS[i] : i \in 1..Len(CHECKS)}

\* Variant of CheckOf: the tie-breaks of min and gt exchanged.
CheckOfSwapped(rule, c) ==
    CASE rule = "min" -> c > 0
      [] rule = "max" -> c <= 0
      [] rule = "gt"  -> c >= 0
      [] rule = "lt"  -> c < 0

\* Variant of CheckOf: max excludes its limit.
CheckOfOpenMax(rule, c) ==
    CASE rule = "min" -> c >= 0
      [] rule = "max" -> c < 0
      [] rule = "gt"  -> c > 0
      [] rule = "lt"  -> c < 0

\* The predicate CHECKS pairs with each rule name.
CheckOf(rule, c) ==
    CASE rule = "min" -> c >= 0
      [] rule = "max" -> c <= 0
      [] rule = "gt"  -> c > 0
      [] rule = "lt"  -> c < 0

\* The keys of the rules table the factory returns.
RuleTable(kind) ==
    (IF HasCompare(kind) THEN ComparisonRules \cup {"gte", "lte"} ELSE {})
    \cup ExtraRules(kind)

\* Variant of MessageTable: the kind's extraMessages are not merged in.
MessageTableNoExtra(kind) ==
    {Code(kind, "base")}
    \cup (IF HasCompare(kind) THEN {Code(kind, r) : r \in ComparisonRules} ELSE {})

\* The keys of the messages table the factory returns.
MessageTable(kind) ==
    {Code(kind, "base")}
    \cup (IF HasCompare(kind) THEN {Code(kind, r) : r \in ComparisonRules} ELSE {})
    \cup {Code(kind, r) : r \in ExtraRules(kind)}

\* Variant of CoerceParsed: a parse failure reported under the host's
\* any.invalid code instead of the kind's base code.
CoerceParsedOtherCode(kind, text, r) ==
    IF r.thrown
    THEN [value |-> Undefined, errors |-> Error("any.invalid", ""), parsed |-> <<text>>]
    ELSE [value |-> r.value, errors |-> NoError, parsed |-> <<text>>]

\* Variant of CoerceParsed: the text is parsed for validity only and is
\* returned as it came.
CoerceParsedKeepText(kind, text, r) ==
    IF r.thrown
    THEN [value |-> Undefined, errors |-> Error(Code(kind, "base"), ""),
          parsed |-> <<text>>]
    ELSE [value |-> Str(text), errors |-> NoError, parsed |-> <<text>>]

\* The try block of coerce: r is the outcome of config.parse(text).
CoerceParsed(kind, text, r) ==
    IF r.thrown
    THEN [value |-> Undefined, errors |-> Error(Code(kind, "base"), ""),
          parsed |-> <<text>>]
    ELSE [value |-> r.value, errors |-> NoError, parsed |-> <<text>>]

\* Variant of coerce: an instance is normalised by parsing its own text
\* again, which yields an equal but new object.
coerceReparse(kind, value, id) ==
    IF IsNullish(value)
    THEN [value |-> value, errors |-> NoError, parsed |-> <<>>]
    ELSE IF check(kind, value)
    THEN CoerceParsed(kind, ToText(value), parse(kind, ToText(value), id))
    ELSE IF ~IsString(value)
    THEN [value |-> Undefined, errors |-> Error(Code(kind, "base"), ""), parsed |-> <<>>]
    ELSE CoerceParsed(kind, value.s, parse(kind, value.s, id))

\* Variant of coerce: a value that is neither a string nor an instance is
\* turned into its text, String(value), and that text is parsed.
coerceStringify(kind, value, id) ==
    IF IsNullish(value) \/ check(kind, value)
    THEN [value |-> value, errors |-> NoError, parsed |-> <<>>]
    ELSE IF ~IsString(value)
    THEN CoerceParsed(kind, ToText(value), parse(kind, ToText(value), id))
    ELSE CoerceParsed(kind, value.s, parse(kind, value.s, id))

\* Variant of coerce: only undefined passes through (value === undefined
\* in place of value == null).
coerceUndefinedOnly(kind, value, id) ==
    IF value = Undefined \/ check(kind, value)
    THEN [value |-> value, errors |-> NoError, parsed |-> <<>>]
    ELSE IF ~IsString(value)
    THEN [value |-> Undefined, errors |-> Error(Code(kind, "base"), ""), parsed |-> <<>>]
    ELSE CoerceParsed(kind, value.s, parse(kind, value.s, id))

\* coerce(value, helpers). The result says what was returned (value, errors)
\* and which texts were handed to config.parse on the way; id is the
\* identity a newly parsed object gets.
coerce(kind, value, id) ==
    IF IsNullish(value) \/ check(kind, value)
    THEN [value |-> value, errors |-> NoError, parsed |-> <<>>]
    ELSE IF ~IsString(value)
    THEN [value |-> Undefined, errors |-> Error(Code(kind, "base"), ""), parsed |-> <<>>]
    ELSE CoerceParsed(kind, value.s, parse(kind, value.s, id))

\* Variant of validate: a string is let through as well as an instance.
validateLax(kind, value) ==
    IF ~(check(kind, value) \/ IsString(value))
    THEN [value |-> value, errors |-> Error(Code(kind, "base"), "")]
    ELSE [value |-> value, errors |-> NoError]

\* Variant of validate: null is let through, as undefined is by the host.
validateNullOk(kind, value) ==
    IF ~check(kind, value) /\ value # Null
    THEN [value |-> value, errors |-> Error(Code(kind, "base"), "")]
    ELSE [value |-> value, errors |-> NoError]

\* validate(value, helpers): the base step.
validate(kind, value) ==
    IF ~check(kind, value)
    THEN [value |-> value, errors |-> Error(Code(kind, "base"), "")]
    ELSE [value |-> value, errors |-> NoError]

\* Variant of LimitAssert: any Temporal instance is taken as a limit, of
\* whatever kind.
LimitAssertAnyInstance(kind, v) == IsString(v) \/ v.tag \in Kinds

\* The assert of a comparison rule's limit argument.
LimitAssert(kind, v) == IsString(v) \/ check(kind, v)

\* What a rule's validate function did: thrown (an exception left it),
\* errors (helpers.error) or the value; the texts it handed to config.parse
\* and the clock ticks it read.
RuleOutcome(thrown, value, errors, parsed, read) ==
    [thrown |-> thrown, value |-> value, errors |-> errors, parsed |-> parsed,
     read |-> read]

\* Variant of UsesNow: the sentinel is misspelt, so no limit is read as the
\* current moment.
UsesNowNever(kind, limit) == limit = Str("Now") /\ HasNow(kind)

\* Whether the limit is read as the current moment.
UsesNow(kind, limit) == limit = Str("now") /\ HasNow(kind)

\* Variant of Resolve: the current moment is taken once, at the clock's
\* first tick, and kept.
ResolveStale(kind, limit, tick, id) ==
    IF UsesNow(kind, limit) THEN Returned(now(kind, 0, id))
    ELSE IF IsString(limit) THEN parse(kind, limit.s, id)
    ELSE Returned(limit)

\* The limit a comparison rule compares against: config.now() for "now" when
\* the config has now, config.parse(limit) for any other string, else the
\* limit itself.
Resolve(kind, limit, tick, id) ==
    IF UsesNow(kind, limit) THEN Returned(now(kind, tick, id))
    ELSE IF IsString(limit) THEN parse(kind, limit.s, id)
    ELSE Returned(limit)

\* Variant of CompareResolved: the error reports a text limit as it was
\* written, not the text of the limit parsed from it.
CompareResolvedRawLimit(kind, rule, value, resolved, tick, parsed, read) ==
    IF resolved.thrown
    THEN RuleOutcome(TRUE, value, NoError, parsed, <<>>)
    ELSE IF ~CheckOf(rule, compare(kind, value, resolved.value, tick))
    THEN RuleOutcome(FALSE, value,
                     Error(Code(kind, rule),
                           IF parsed # <<>> THEN parsed[1] ELSE ToText(resolved.value)),
                     parsed, read)
    ELSE RuleOutcome(FALSE, value, NoError, parsed, read)

\* Variant of CompareResolved: a rule that accepts returns the resolved
\* limit, not the value it was given.
CompareResolvedReturnsLimit(kind, rule, value, resolved, tick, parsed, read) ==
    IF resolved.thrown
    THEN RuleOutcome(TRUE, value, NoError, parsed, <<>>)
    ELSE IF ~CheckOf(rule, compare(kind, value, resolved.value, tick))
    THEN RuleOutcome(FALSE, value,
                     Error(Code(kind, rule), ToText(resolved.value)), parsed, read)
    ELSE RuleOutcome(FALSE, resolved.value, NoError, parsed, read)

\* The check against the resolved limit, and the error built from it.
CompareResolved(kind, rule, value, resolved, tick, parsed, read) ==
    IF resolved.thrown
    THEN RuleOutcome(TRUE, value, NoError, parsed, <<>>)
    ELSE IF ~CheckOf(rule, compare(kind, value, resolved.value, tick))
    THEN RuleOutcome(FALSE, value,
                     Error(Code(kind, rule), ToText(resolved.value)), parsed, read)
    ELSE RuleOutcome(FALSE, value, NoError, parsed, read)

\* rules[rule].validate(value, helpers, { limit }) of the four CHECKS rules.
CompareValidate(kind, rule, value, limit, tick, id) ==
    CompareResolved(kind, rule, value, Resolve(kind, limit, tick, id), tick,
                    IF IsString(limit) /\ ~UsesNow(kind, limit)
                    THEN <<limit.s>> ELSE <<>>,
                    IF UsesNow(kind, limit) \/ kind = "duration"
                    THEN <<tick>> ELSE <<>>)

\* Variant of TimezoneValidate: the requested name is first brought to the
\* spelling zone identifiers have on values ("utc" names UTC).
TimezoneValidateAlias(value, tz) ==
    IF value.s # (IF tz.s = "utc" THEN "UTC" ELSE tz.s)
    THEN RuleOutcome(FALSE, value, Error("temporal.zonedDateTime.timezone", tz.s),
                     <<>>, <<>>)
    ELSE RuleOutcome(FALSE, value, NoError, <<>>, <<>>)

\* extraRules.timezone.validate(value, helpers, { tz })
TimezoneValidate(value, tz) ==
    IF value.s # tz.s
    THEN RuleOutcome(FALSE, value, Error("temporal.zonedDateTime.timezone", tz.s),
                     <<>>, <<>>)
    ELSE RuleOutcome(FALSE, value, NoError, <<>>, <<>>)

\* Variant of SignValidate: positive() and negative() let the zero
\* duration through (sign >= 0, sign <= 0).
SignValidateZeroOk(rule, value) ==
    LET sign == DurationSign(value.c)
        bad  == CASE rule = "positive" -> sign < 0
                  [] rule = "negative" -> sign > 0
                  [] rule = "nonzero"  -> sign = 0
    IN  IF bad
        THEN RuleOutcome(FALSE, value, Error(Code("duration", rule), ""), <<>>, <<>>)
        ELSE RuleOutcome(FALSE, value, NoError, <<>>, <<>>)

\* extraRules.positive / negative / nonzero .validate(value, helpers)
SignValidate(rule, value) ==
    LET sign == DurationSign(value.c)
        bad  == CASE rule = "positive" -> sign <= 0
                  [] rule = "negative" -> sign >= 0
                  [] rule = "nonzero"  -> sign = 0
    IN  IF bad
        THEN RuleOutcome(FALSE, value, Error(Code("duration", rule), ""), <<>>, <<>>)
        ELSE RuleOutcome(FALSE, value, NoError, <<>>, <<>>)

\* definition.validate(value, helpers, args) of the rule named `rule`.
RuleValidate(kind, rule, value, arg, clock, id) ==
    IF rule \in ComparisonRules THEN CompareValidate(kind, rule, value, arg, clock, id)
    ELSE IF rule = "timezone" THEN TimezoneValidate(value, arg)
    ELSE SignValidate(rule, value)

\* Variant of RuleNameOf: gte and lte attach the strict rules.
RuleNameOfStrict(method) ==
    CASE method = "gte" -> "gt"
      [] method = "lte" -> "lt"
      [] OTHER -> method

\* The rule entry a rule method adds: gte and lte call this.min and
\* this.max, every other method adds a rule of its own name.
RuleNameOf(method) ==
    CASE method = "gte" -> "min"
      [] method = "lte" -> "max"
      [] OTHER -> method

\* ------------------------------------------------------------------ inputs
\* The values the model feeds to validate() and to the rule methods. The
\* texts are those of the repository's tests and README, kind by kind, plus
\* texts around the clock's moments.

ValidTexts(kind) ==
    CASE kind = "plainDate"      -> {"2021-02-15", "2024-02-29"}
      [] kind = "plainTime"      -> {"09:00", "17:00:01"}
      [] kind = "plainDateTime"  -> {"2021-02-15", "2021-03-02T14:00:00"}
      [] kind = "zonedDateTime"  -> {"2021-01-01T01:00:00+01:00[Europe/Berlin]",
                                     "2021-06-15T16:00:00Z[America/New_York]"}
      [] kind = "instant"        -> {"2021-01-01T01:00:00+01:00", "2021-01-01T00:00:01Z"}
      [] kind = "duration"       -> {"PT60M", "P1M", "-PT1H", "PT0S"}
      [] kind = "plainYearMonth" -> {"2021-01", "2021-06"}
      [] kind = "plainMonthDay"  -> {"12-30", "02-29"}

InvalidTexts(kind) ==
    {"", "foo"} \cup
    CASE kind = "plainDate"      -> {"2021-02-31"}
      [] kind = "plainTime"      -> {"25:00:00"}
      [] kind = "plainDateTime"  -> {"2021-02-31T12:00:00"}
      [] kind = "zonedDateTime"  -> {"2021-01-15T14:30:00Z"}
      [] kind = "instant"        -> {"2021-01-15T14:30:00"}
      [] kind = "duration"       -> {"2021-01-15"}
      [] kind = "plainYearMonth" -> {"2021-13"}
      [] kind = "plainMonthDay"  -> {"04-31"}

\* The texts the typed inputs and the typed limit are made from.
InstanceTexts(kind) ==
    CASE kind = "plainDate"      -> <<"2021-01-31", "2021-02-15", "2021-03-02">>
      [] kind = "plainTime"      -> <<"08:59:59", "09:00:00", "14:00:00">>
      [] kind = "plainDateTime"  -> <<"2021-01-31T08:59:59", "2021-02-15T00:00:00",
                                      "2021-03-02T14:00:00">>
      [] kind = "zonedDateTime"  -> <<"2021-01-01T00:00:00+00:00[UTC]",
                                      "2021-06-15T12:00:00-04:00[America/New_York]",
                                      "2021-01-01T01:00:00+01:00[Europe/Berlin]">>
      [] kind = "instant"        -> <<"2021-01-01T00:00:00Z", "2020-12-31T23:59:59Z",
                                      "2021-01-01T00:00:00Z">>
      [] kind = "duration"       -> <<"PT1H", "P1M", "PT1H">>
      [] kind = "plainYearMonth" -> <<"2021-01", "2021-06", "2021-01">>
      [] kind = "plainMonthDay"  -> <<"12-30", "02-29", "12-30">>

\* Object identities: 1 and 2 are the typed inputs, 3 is the typed limit,
\* and the n-th object a validate() call creates is FreshId(n).
Instance(kind, i) == parse(kind, InstanceTexts(kind)[i], i).value

FreshId(n) == Len(InstanceTexts("plainDate")) + 1 + n

\* A Temporal instance of another kind.
Foreign(kind) ==
    IF kind = "plainDate" THEN Instance("plainDateTime", 1) ELSE Instance("plainDate", 1)

Number42    == Val("number", "42", <<>>, 0)
True        == Val("boolean", "true", <<>>, 0)
PlainObject == Val("object", "", <<>>, 0)

Inputs(kind) ==
    {Undefined, Null, Number42, True, PlainObject, Foreign(kind)}
    \cup {Str(s) : s \in ValidTexts(kind) \cup InvalidTexts(kind)}
    \cup {Instance(kind, 1), Instance(kind, 2)}

\* The text limit of each kind, not in canonical form where the kind has
\* another form.
LimitText(kind) ==
    CASE kind = "plainDate"      -> "2021-02-15"
      [] kind = "plainTime"      -> "09:00"
      [] kind = "plainDateTime"  -> "2021-02-15"
      [] kind = "zonedDateTime"  -> "2021-01-01T00:00:00Z[UTC]"
      [] kind = "instant"        -> "2021-01-01T01:00:00+01:00"
      [] kind = "duration"       -> "P30D"
      [] kind = "plainYearMonth" -> "2021-06"
      [] kind = "plainMonthDay"  -> "12-30"

\* The arguments handed to min, max, gt, lt, gte, lte.
Limits(kind) ==
    {Str(LimitText(kind)), Str("now"), Instance(kind, 3), Number42, Null, Foreign(kind)}
    \cup (IF HasNow(kind) THEN {Str("foo")} ELSE {})

\* The arguments handed to timezone.
ZoneArgs == {Str("UTC"), Str("utc")}

\* The arguments a rule method is called with.
ArgsOf(kind, method) ==
    IF method \in ComparisonRules \cup {"gte", "lte"} THEN Limits(kind)
    ELSE IF method = "timezone" THEN ZoneArgs
    ELSE {Undefined}

Methods == ComparisonRules \cup {"gte", "lte", "timezone", "positive", "negative", "nonzero"}

\* ------------------------------------------------------------------- state

VARIABLES
    runtime,    \* whether globalThis.Temporal is defined
    module,     \* "unloaded" | "loaded" | "failed": the import of the module
    schema,     \* the schema under construction and test
    clock,      \* the wall clock, in ticks
    calls       \* per caller, the validate() call it is in

vars == <<runtime, module, schema, clock, calls>>

\* The callers of validate(): one in Spec, two in SpecShared, where their
\* calls on the one schema interleave.
OneCaller == {"a"}

TwoCallers == {"a", "b"}

Callers == DOMAIN calls

\* status: "none" (no schema yet), "ok", "rejected" (a rule method threw on
\* its argument), "nomethod" (the schema type has no such method).
\* rules is the host's rule list, attached the accepted rule-method calls in
\* the order they were made.
NoSchema == [status |-> "none", kind |-> "", rules |-> <<>>, attached |-> <<>>]

\* What is kept of a caller's previous validate() call: how it ended
\* ("none": there was none), its error and the clock ticks it read.
NoPrev == [pc |-> "none", error |-> NoError, reads |-> <<>>]

IdleCall == [pc |-> "idle", input |-> Undefined, convert |-> TRUE,
             presence |-> "optional", allowNull |-> FALSE,
             value |-> Undefined, error |-> NoError, idx |-> 0,
             parsed |-> <<>>, reads |-> <<>>, ran |-> <<>>, allocs |-> 0,
             prev |-> NoPrev]

Init ==
    /\ runtime \in BOOLEAN
    /\ module = "unloaded"
    /\ schema = NoSchema
    /\ clock = 0
    /\ calls = [c \in OneCaller |-> IdleCall]

\* ------------------------------------------------------ load and build

\* Variant of LoadModule: the module has no Temporal check and always
\* exports its extensions.
LoadModuleUnchecked ==
    /\ module = "unloaded"
    /\ module' = "loaded"
    /\ UNCHANGED <<runtime, schema, clock, calls>>

\* import "joi-temporal": the Temporal check, then the extensions array.
LoadModule ==
    /\ module = "unloaded"
    /\ module' = IF runtime THEN "loaded" ELSE "failed"
    /\ UNCHANGED <<runtime, schema, clock, calls>>

\* Joi.extend(...joiTemporal) and custom.<kind>(): a schema with no rules.
CreateSchema(kind) ==
    /\ module = "loaded"
    /\ schema.status = "none"
    /\ schema' = [status |-> "ok", kind |-> kind, rules |-> <<>>, attached |-> <<>>]
    /\ UNCHANGED <<runtime, module, clock, calls>>

\* Variant of AddedRule: the host keeps every rule it is given (as it does
\* for a rule defined with multi: true).
AddedRuleAppend(rules, name, arg, via) ==
    rules \o <<[name |-> name, arg |-> arg, via |-> via]>>

\* The rule list after $_addRule({ name, args }): a rule is unique by name
\* (the host drops an earlier rule of that name), and the new one goes last.
\* via is the schema method the rule was attached through.
AddedRule(rules, name, arg, via) ==
    SelectSeq(rules, LAMBDA r : r.name # name)
    \o <<[name |-> name, arg |-> arg, via |-> via]>>

\* The schema is still being built: no validate() call has been made on it.
Building ==
    /\ schema.status = "ok"
    /\ \A c \in Callers : calls[c].pc = "idle"
    /\ Len(schema.attached) < MaxRules

\* schema.<method>(arg), while the schema is being built.
AddRule(method, arg) ==
    /\ Building
    /\ schema' =
         IF method \notin RuleTable(schema.kind)
         THEN [schema EXCEPT !.status = "nomethod"]
         ELSE IF RuleNameOf(method) \in ComparisonRules /\ ~LimitAssert(schema.kind, arg)
         THEN [schema EXCEPT !.status = "rejected"]
         ELSE [schema EXCEPT
                 !.rules = AddedRule(schema.rules, RuleNameOf(method), arg, method),
                 !.attached = Append(schema.attached, [method |-> method, arg |-> arg])]
    /\ UNCHANGED <<runtime, module, clock, calls>>

\* schema.describe(): the type name and the rule list, each rule with its
\* name and the argument it was given.
Describe(s) ==
    [type  |-> s.kind,
     rules |-> [i \in 1..Len(s.rules) |->
                  [name |-> s.rules[i].name, arg |-> s.rules[i].arg]]]

\* ------------------------------------------------------------- validate()
\* The host runs, in this order: coerce (when convert is on and the value
\* is not undefined), the presence check, the allowed values, the base
\* validate step, and the rules in attachment order, stopping at the first
\* error.

Finished(call) == call.pc \in {"done", "thrown"}

\* The options a call is made with. The presence flag is varied on the
\* inputs the host reads it for (undefined and null), allow(null) on null.
CallOptions(input) ==
    IF input = Undefined
    THEN [convert : BOOLEAN, presence : {"optional", "required"}, allowNull : {FALSE}]
    ELSE IF input = Null
    THEN [convert : BOOLEAN, presence : {"optional", "required"}, allowNull : BOOLEAN]
    ELSE [convert : BOOLEAN, presence : {"optional"}, allowNull : {FALSE}]

\* Caller c may call validate() on the schema.
Callable(c) == schema.status = "ok" /\ calls[c].pc = "idle"

\* schema.validate(input, { convert }) on the schema with the given
\* presence (.required() / .optional()) and .allow(null).
StartCall(c, input, opt) ==
    /\ Callable(c)
    /\ calls' = [calls EXCEPT ![c] =
                   [IdleCall EXCEPT !.pc = "coerce", !.input = input,
                                    !.convert = opt.convert, !.presence = opt.presence,
                                    !.allowNull = opt.allowNull, !.value = input]]
    /\ UNCHANGED <<runtime, module, schema, clock>>

\* The same schema.validate(input, options) once more, after the clock has
\* moved past what the previous call read of it.
Revalidate(c) ==
    LET call == calls[c]
    IN  /\ Finished(call)
        /\ call.prev = NoPrev
        /\ call.reads # <<>>
        /\ call.reads[Len(call.reads)] < clock
        /\ calls' = [calls EXCEPT ![c] =
                       [IdleCall EXCEPT !.pc = "coerce", !.input = call.input,
                                        !.convert = call.convert,
                                        !.presence = call.presence,
                                        !.allowNull = call.allowNull,
                                        !.value = call.input,
                                        !.prev = [pc |-> call.pc, error |-> call.error,
                                                  reads |-> call.reads]]]
        /\ UNCHANGED <<runtime, module, schema, clock>>

\* Variant of CoerceStep: the extension keeps the value it coerced last in
\* one slot of its own, which every call in flight reads its value from.
CoerceStepShared(c) ==
    LET call == calls[c]
        r    == coerce(schema.kind, call.value, FreshId(call.allocs))
        ran  == call.convert /\ call.value # Undefined /\ r.errors = NoError
    IN  /\ call.pc = "coerce"
        /\ calls' = [d \in DOMAIN calls |->
             IF d # c
             THEN (IF ran /\ calls[d].pc \in {"presence", "base", "rules"}
                   THEN [calls[d] EXCEPT !.value = r.value] ELSE calls[d])
             ELSE IF ~call.convert \/ call.value = Undefined
             THEN [call EXCEPT !.pc = "presence"]
             ELSE IF r.errors # NoError
             THEN [call EXCEPT !.pc = "done", !.error = r.errors, !.value = r.value,
                               !.parsed = call.parsed \o r.parsed]
             ELSE [call EXCEPT !.pc = "presence", !.value = r.value,
                               !.parsed = call.parsed \o r.parsed,
                               !.allocs = call.allocs + Len(r.parsed)]]
        /\ UNCHANGED <<runtime, module, schema, clock>>

CoerceStep(c) ==
    LET call == calls[c]
        r    == coerce(schema.kind, call.value, FreshId(call.allocs))
    IN  /\ call.pc = "coerce"
        /\ calls' = [calls EXCEPT ![c] =
             IF ~call.convert \/ call.value = Undefined
             THEN [call EXCEPT !.pc = "presence"]
             ELSE IF r.errors # NoError
             THEN [call EXCEPT !.pc = "done", !.error = r.errors, !.value = r.value,
                               !.parsed = call.parsed \o r.parsed]
             ELSE [call EXCEPT !.pc = "presence", !.value = r.value,
                               !.parsed = call.parsed \o r.parsed,
                               !.allocs = call.allocs + Len(r.parsed)]]
        /\ UNCHANGED <<runtime, module, schema, clock>>

\* The host's presence check and allowed values.
PresenceStep(c) ==
    LET call == calls[c]
    IN  /\ call.pc = "presence"
        /\ calls' = [calls EXCEPT ![c] =
             IF call.value = Undefined
             THEN (IF call.presence = "required"
                   THEN [call EXCEPT !.pc = "done", !.error = Error("any.required", "")]
                   ELSE [call EXCEPT !.pc = "done"])
             ELSE IF call.allowNull /\ call.value = Null
             THEN [call EXCEPT !.pc = "done"]
             ELSE [call EXCEPT !.pc = "base"]]
        /\ UNCHANGED <<runtime, module, schema, clock>>

\* Variant of BaseStep: with conversion on the base check is left out, the
\* value being taken as what coerce made of it.
BaseStepTrustingCoerce(c) ==
    LET call == calls[c]
        r    == validate(schema.kind, call.value)
    IN  /\ call.pc = "base"
        /\ calls' = [calls EXCEPT ![c] =
             IF r.errors # NoError /\ ~call.convert
             THEN [call EXCEPT !.pc = "done", !.error = r.errors]
             ELSE IF schema.rules = <<>>
             THEN [call EXCEPT !.pc = "done"]
             ELSE [call EXCEPT !.pc = "rules", !.idx = 1]]
        /\ UNCHANGED <<runtime, module, schema, clock>>

BaseStep(c) ==
    LET call == calls[c]
        r    == validate(schema.kind, call.value)
    IN  /\ call.pc = "base"
        /\ calls' = [calls EXCEPT ![c] =
             IF r.errors # NoError
             THEN [call EXCEPT !.pc = "done", !.error = r.errors]
             ELSE IF schema.rules = <<>>
             THEN [call EXCEPT !.pc = "done"]
             ELSE [call EXCEPT !.pc = "rules", !.idx = 1]]
        /\ UNCHANGED <<runtime, module, schema, clock>>

\* Variant of RuleStep: the host does not stop at the first error; every
\* rule runs and the error of the last rule that rejected is reported.
RuleStepLastError(c) ==
    LET call == calls[c]
        rule == schema.rules[call.idx]
        r    == RuleValidate(schema.kind, rule.name, call.value, rule.arg, clock,
                             FreshId(call.allocs))
        seen == [call EXCEPT !.value = r.value,
                             !.parsed = call.parsed \o r.parsed,
                             !.reads = call.reads \o r.read,
                             !.ran = Append(call.ran, rule.name),
                             !.allocs = call.allocs + 1,
                             !.error = IF r.errors # NoError THEN r.errors ELSE call.error]
    IN  /\ call.pc = "rules"
        /\ calls' = [calls EXCEPT ![c] =
             IF r.thrown THEN [seen EXCEPT !.pc = "thrown"]
             ELSE IF call.idx = Len(schema.rules) THEN [seen EXCEPT !.pc = "done"]
             ELSE [seen EXCEPT !.idx = call.idx + 1]]
        /\ UNCHANGED <<runtime, module, schema, clock>>

\* The next attached rule's validate function runs; what it returns is the
\* value the host goes on with.
RuleStep(c) ==
    LET call == calls[c]
        rule == schema.rules[call.idx]
        r    == RuleValidate(schema.kind, rule.name, call.value, rule.arg, clock,
                             FreshId(call.allocs))
        seen == [call EXCEPT !.value = r.value,
                             !.parsed = call.parsed \o r.parsed,
                             !.reads = call.reads \o r.read,
                             !.ran = Append(call.ran, rule.name),
                             !.allocs = call.allocs + 1]
    IN  /\ call.pc = "rules"
        /\ calls' = [calls EXCEPT ![c] =
             IF r.thrown THEN [seen EXCEPT !.pc = "thrown"]
             ELSE IF r.errors # NoError THEN [seen EXCEPT !.pc = "done", !.error = r.errors]
             ELSE IF call.idx = Len(schema.rules) THEN [seen EXCEPT !.pc = "done"]
             ELSE [seen EXCEPT !.idx = call.idx + 1]]
        /\ UNCHANGED <<runtime, module, schema, clock>>

\* Time passes.
Tick ==
    /\ clock < MaxClock
    /\ clock' = clock + 1
    /\ UNCHANGED <<runtime, module, schema, calls>>

Next ==
    \/ LoadModule
    \/ \E kind \in Kinds : CreateSchema(kind)
    \/ /\ Building
       /\ \E method \in Methods : \E arg \in ArgsOf(schema.kind, method) :
            AddRule(method, arg)
    \/ \E c \in Callers :
         /\ Callable(c)
         /\ \E input \in Inputs(schema.kind) :
              \E opt \in CallOptions(input) : StartCall(c, input, opt)
    \/ \E c \in Callers : Revalidate(c)
    \/ \E c \in Callers : CoerceStep(c)
    \/ \E c \in Callers : PresenceStep(c)
    \/ \E c \in Callers : BaseStep(c)
    \/ \E c \in Callers : RuleStep(c)
    \/ Tick

Spec == Init /\ [][Next]_vars

\* ------------------------------------------------- two callers, one schema
\* Two callers validate on one schema; the steps of their calls and the
\* clock interleave freely. The schemas are plain time and duration schemas
\* with up to MaxRules of the rules below, the inputs a text the kind
\* parses, a text it does not, an instance and null.

InitShared ==
    /\ runtime = TRUE
    /\ module = "unloaded"
    /\ schema = NoSchema
    /\ clock = 0
    /\ calls = [c \in TwoCallers |-> IdleCall]

SharedKinds == {"plainTime", "duration"}

SharedRules(kind) ==
    {<<"min", Str("now")>>, <<"max", Str(LimitText(kind))>>}
    \cup (IF kind = "duration" THEN {<<"positive", Undefined>>} ELSE {})

SharedInputs(kind) ==
    {Str(IF kind = "duration" THEN "P1M" ELSE "09:00"), Str("foo"),
     Instance(kind, 1), Null}

NextShared ==
    \/ LoadModule
    \/ \E kind \in SharedKinds : CreateSchema(kind)
    \/ /\ Building
       /\ \E rule \in SharedRules(schema.kind) : AddRule(rule[1], rule[2])
    \/ \E c \in Callers :
         /\ Callable(c)
         /\ \E input \in SharedInputs(schema.kind) :
              \E opt \in CallOptions(input) : StartCall(c, input, opt)
    \/ \E c \in Callers : CoerceStep(c)
    \/ \E c \in Callers : PresenceStep(c)
    \/ \E c \in Callers : BaseStep(c)
    \/ \E c \in Callers : RuleStep(c)
    \/ Tick

SpecShared == InitShared /\ [][NextShared]_vars

\* -------------------------------------------------------------- properties

\* The call's coerce function has run: conversion is on and the input is not
\* undefined.
CoerceRan(call) ==
    call.convert /\ call.input # Undefined /\ call.pc \notin {"idle", "coerce"}

\* The text is one the kind's parser rejects.
Rejects(kind, text) == parse(kind, text, FreshId(0)).thrown

\* C1: when the input is a string the kind's parser rejects, coerce ends
\* the call with the error temporal.<kind>.base and nothing else: no rule
\* runs and no exception leaves the call.
C1_ParseFailureIsBaseError ==
    \A c \in Callers :
        (CoerceRan(calls[c]) /\ IsString(calls[c].input)
         /\ Rejects(schema.kind, calls[c].input.s))
        => /\ calls[c].pc = "done"
           /\ calls[c].error = Error("temporal." \o schema.kind \o ".base", "")
           /\ calls[c].ran = <<>>

\* A call on a plainDate schema has ended on the overflowing date
\* 2021-02-31 with the base error.
C1_Witness ==
    \E c \in Callers :
        /\ schema.kind = "plainDate"
        /\ calls[c].pc = "done"
        /\ calls[c].convert
        /\ calls[c].input = Str("2021-02-31")
        /\ calls[c].parsed = <<"2021-02-31">>
        /\ calls[c].error.code = "temporal.plainDate.base"

\* C2: when the input is a string the kind's parser accepts, the value
\* after coerce is the parsed value, it is an instance of the kind, and a
\* schema without rules ends the call with that value and no error.
C2_ParsedValueReplacesText ==
    \A c \in Callers :
        (CoerceRan(calls[c]) /\ IsString(calls[c].input)
         /\ ~Rejects(schema.kind, calls[c].input.s))
        => /\ calls[c].value = parse(schema.kind, calls[c].input.s, FreshId(0)).value
           /\ check(schema.kind, calls[c].value)
           /\ calls[c].value.tag = schema.kind
           /\ (schema.rules = <<>> /\ calls[c].pc = "done"
               => calls[c].error = NoError)

\* A call on an instant schema without rules has ended on
\* "2021-01-01T01:00:00+01:00" with the instant 2021-01-01T00:00:00Z.
C2_Witness ==
    \E c \in Callers :
        /\ schema.kind = "instant"
        /\ schema.rules = <<>>
        /\ calls[c].pc = "done"
        /\ calls[c].convert
        /\ calls[c].input = Str("2021-01-01T01:00:00+01:00")
        /\ calls[c].error = NoError
        /\ calls[c].value.tag = "instant"
        /\ calls[c].value.c = <<1609459200>>

\* C3: when the input is an instance of the kind, the value after coerce is
\* the same object (same identity), and coerce hands nothing to the parser:
\* only rules that ran have parsed anything.
C3_InstancePassesUnparsed ==
    \A c \in Callers :
        (CoerceRan(calls[c]) /\ check(schema.kind, calls[c].input))
        => /\ calls[c].value = calls[c].input
           /\ calls[c].value.id = calls[c].input.id
           /\ Len(calls[c].parsed) <= Len(calls[c].ran)
           /\ (calls[c].pc \in {"presence", "base"}
               => calls[c].parsed = <<>> /\ calls[c].allocs = 0)

\* coerce has just returned on a typed plainDate input.
C3_Witness ==
    \E c \in Callers :
        /\ schema.kind = "plainDate"
        /\ calls[c].pc = "presence"
        /\ calls[c].convert
        /\ calls[c].input = Instance("plainDate", 1)
        /\ calls[c].value.id = 1
        /\ calls[c].parsed = <<>>

\* The value is neither null/undefined, nor a string, nor an instance of
\* the kind.
Other(kind, v) == ~IsNullish(v) /\ ~IsString(v) /\ ~check(kind, v)

\* C4: an input that is neither null/undefined, nor a string, nor an
\* instance of the kind ends the call with temporal.<kind>.base; nothing is
\* handed to the parser, no rule runs, the value never becomes an instance
\* of the kind, and with conversion on it is coerce that ends the call.
C4_OtherTypesAreBaseErrors ==
    \A c \in Callers :
        (calls[c].pc # "idle" /\ Other(schema.kind, calls[c].input))
        => /\ calls[c].parsed = <<>>
           /\ calls[c].ran = <<>>
           /\ calls[c].pc \in {"coerce", "presence", "base", "done"}
           /\ ~check(schema.kind, calls[c].value)
           /\ (calls[c].pc = "done"
               => calls[c].error = Error("temporal." \o schema.kind \o ".base", ""))
           /\ (calls[c].convert /\ calls[c].pc # "coerce" => calls[c].pc = "done")

\* A call on a plainDate schema has ended on a PlainDateTime instance with
\* the base error, conversion on.
C4_Witness ==
    \E c \in Callers :
        /\ schema.kind = "plainDate"
        /\ calls[c].pc = "done"
        /\ calls[c].convert
        /\ calls[c].input.tag = "plainDateTime"
        /\ calls[c].parsed = <<>>
        /\ calls[c].error.code = "temporal.plainDate.base"

\* C5: coerce returns null and undefined as they came, with no error, for
\* every kind; a call on undefined ends with undefined and no error on an
\* optional schema, and with any.required and nothing else on a required
\* one; any.required arises in no other case.
C5_NullishPassesThroughCoerce ==
    /\ \A kind \in Kinds : \A v \in {Undefined, Null} :
          coerce(kind, v, FreshId(0)) = [value |-> v, errors |-> NoError, parsed |-> <<>>]
    /\ \A c \in Callers :
          /\ (CoerceRan(calls[c]) /\ calls[c].input = Null)
             => /\ calls[c].value = Null
                /\ calls[c].parsed = <<>>
                /\ (calls[c].allowNull => calls[c].error = NoError)
          /\ (calls[c].input = Undefined /\ calls[c].pc = "done")
             => /\ calls[c].value = Undefined
                /\ calls[c].parsed = <<>>
                /\ calls[c].error = IF calls[c].presence = "required"
                                    THEN Error("any.required", "") ELSE NoError
          /\ (calls[c].error.code = "any.required")
             => calls[c].input = Undefined /\ calls[c].presence = "required"

\* coerce has returned null on a schema that allows null, and the call has
\* ended with null and no error.
C5_Witness ==
    \E c \in Callers :
        /\ calls[c].pc = "done"
        /\ calls[c].convert
        /\ calls[c].allowNull
        /\ calls[c].input = Null
        /\ calls[c].value = Null
        /\ calls[c].error = NoError

\* C6: with conversion off, a string input (one the parser accepts
\* included) stays a string, nothing is parsed, no rule runs and the base
\* step ends the call with temporal.<kind>.base; an instance passes the
\* base step unchanged.
C6_ConvertOffRejectsStrings ==
    \A c \in Callers :
        (~calls[c].convert /\ calls[c].pc # "idle")
        => /\ IsString(calls[c].input)
              => /\ calls[c].value = calls[c].input
                 /\ calls[c].parsed = <<>>
                 /\ calls[c].ran = <<>>
                 /\ calls[c].pc \in {"coerce", "presence", "base", "done"}
                 /\ (calls[c].pc = "done"
                     => calls[c].error = Error("temporal." \o schema.kind \o ".base", ""))
           /\ check(schema.kind, calls[c].input)
              => /\ calls[c].value = calls[c].input
                 /\ calls[c].error.code # "temporal." \o schema.kind \o ".base"
                 /\ (schema.rules = <<>> /\ calls[c].pc = "done"
                     => calls[c].error = NoError)

\* With conversion off, a call on a plainDate schema has ended on the
\* well-formed text "2021-02-15" with the base error.
C6_Witness ==
    \E c \in Callers :
        /\ schema.kind = "plainDate"
        /\ calls[c].pc = "done"
        /\ ~calls[c].convert
        /\ calls[c].input = Str("2021-02-15")
        /\ calls[c].value = Str("2021-02-15")
        /\ calls[c].error.code = "temporal.plainDate.base"

\* The rule that ran last in the call, the clock tick it ran at (when it
\* read the clock), and the limit it resolved.
LastRule(call) == schema.rules[Len(call.ran)]

LastTick(call) == IF call.reads = <<>> THEN 0 ELSE call.reads[Len(call.reads)]

LastLimit(call) ==
    Resolve(schema.kind, LastRule(call).arg, LastTick(call), FreshId(call.allocs - 1))

\* A comparison rule ran last and did not throw.
Compared(call) ==
    /\ call.ran # <<>>
    /\ call.pc # "thrown"
    /\ LastRule(call).name \in {"min", "max", "gt", "lt"}

\* The rule that ran last rejected the value, or accepted it.
LastRejected(call) == call.pc = "done" /\ call.error # NoError

LastAccepted(call) == call.pc \in {"rules", "done"} /\ call.error = NoError

\* compare(value, resolved limit) of the rule that ran last.
LastComparison(call) ==
    compare(schema.kind, call.value, LastLimit(call).value, LastTick(call))

\* C7: a comparison rule that ran on value v with resolved limit L accepted
\* v iff compare(v, L) >= 0 (min), <= 0 (max), > 0 (gt), < 0 (lt), and a
\* rejection carries the code temporal.<kind>.<rule>.
C7_RulesFollowComparison ==
    \A c \in Callers :
        Compared(calls[c])
        => /\ LastAccepted(calls[c]) \/ LastRejected(calls[c])
           /\ LastRule(calls[c]).name = "min"
              => (LastAccepted(calls[c]) <=> LastComparison(calls[c]) >= 0)
           /\ LastRule(calls[c]).name = "max"
              => (LastAccepted(calls[c]) <=> LastComparison(calls[c]) <= 0)
           /\ LastRule(calls[c]).name = "gt"
              => (LastAccepted(calls[c]) <=> LastComparison(calls[c]) > 0)
           /\ LastRule(calls[c]).name = "lt"
              => (LastAccepted(calls[c]) <=> LastComparison(calls[c]) < 0)
           /\ LastRejected(calls[c])
              => calls[c].error.code
                 = "temporal." \o schema.kind \o "." \o LastRule(calls[c]).name

\* min("09:00") on a plainTime schema has rejected 08:59:59 with the min
\* code.
C7_Witness ==
    \E c \in Callers :
        /\ schema.kind = "plainTime"
        /\ calls[c].ran = <<"min">>
        /\ schema.rules[1].arg = Str("09:00")
        /\ calls[c].value.c = <<8, 59, 59>>
        /\ calls[c].pc = "done"
        /\ calls[c].error.code = "temporal.plainTime.min"

\* The value has the fields of the limit the last rule resolved: the value
\* is its own limit.
OwnLimit(call) ==
    /\ LastLimit(call).value.c = call.value.c
    /\ LastLimit(call).value.s = call.value.s

\* C8: a comparison rule whose limit is the value itself accepts it when
\* the rule is min or max, and rejects it with the gt code and the lt code
\* when the rule is gt and lt.
C8_OwnLimitBoundary ==
    \A c \in Callers :
        (Compared(calls[c]) /\ OwnLimit(calls[c]))
        => /\ LastRule(calls[c]).name \in {"min", "max"} => LastAccepted(calls[c])
           /\ LastRule(calls[c]).name = "gt"
              => /\ calls[c].pc = "done"
                 /\ calls[c].error.code = "temporal." \o schema.kind \o ".gt"
           /\ LastRule(calls[c]).name = "lt"
              => /\ calls[c].pc = "done"
                 /\ calls[c].error.code = "temporal." \o schema.kind \o ".lt"

\* gt(i) on an instant schema has rejected an instant equal to i with the
\* gt code.
C8_Witness ==
    \E c \in Callers :
        /\ schema.kind = "instant"
        /\ calls[c].ran = <<"gt">>
        /\ schema.rules[1].arg = Instance("instant", 3)
        /\ calls[c].value.c = Instance("instant", 3).c
        /\ calls[c].pc = "done"
        /\ calls[c].error.code = "temporal.instant.gt"

\* What the rule named `rule` does on the value and limit of the rule that
\* ran last.
RuleWould(rule, call) ==
    CompareValidate(schema.kind, rule, call.value, LastRule(call).arg, LastTick(call),
                    FreshId(call.allocs - 1))

\* The rule that ran last ended as outcome r says.
EndedAs(call, r) ==
    /\ call.pc = "thrown" <=> r.thrown
    /\ call.pc # "thrown"
       => /\ LastRejected(call) <=> r.errors # NoError
          /\ LastRejected(call) => call.error = r.errors
          /\ call.value = r.value

\* C9: a rule attached through gte(L) ends on every value as min(L) does,
\* and rejects with the code temporal.<kind>.min; a rule attached through
\* lte(L) ends as max(L) does, with temporal.<kind>.max.
C9_AliasesDelegate ==
    \A c \in Callers :
        (calls[c].ran # <<>> /\ LastRule(calls[c]).via \in {"gte", "lte"})
        => /\ LastRule(calls[c]).via = "gte"
              => /\ EndedAs(calls[c], RuleWould("min", calls[c]))
                 /\ LastRejected(calls[c])
                    => calls[c].error.code = "temporal." \o schema.kind \o ".min"
           /\ LastRule(calls[c]).via = "lte"
              => /\ EndedAs(calls[c], RuleWould("max", calls[c]))
                 /\ LastRejected(calls[c])
                    => calls[c].error.code = "temporal." \o schema.kind \o ".max"

\* gte("2021-02-15") on a plainDate schema has rejected 2021-01-31 with
\* the min code.
C9_Witness ==
    \E c \in Callers :
        /\ schema.kind = "plainDate"
        /\ Len(schema.rules) = 1
        /\ schema.rules[1].via = "gte"
        /\ schema.rules[1].arg = Str("2021-02-15")
        /\ calls[c].ran = <<"min">>
        /\ calls[c].value.c = <<2021, 1, 31>>
        /\ calls[c].pc = "done"
        /\ calls[c].error.code = "temporal.plainDate.min"

\* The schema is min("now") on a kind that has now, and caller c has made
\* the same call twice on it, at ticks that straddle the value: the value
\* is not before the moment of the first call and before that of the second.
Straddled(c) ==
    /\ HasNow(schema.kind)
    /\ Len(schema.rules) = 1
    /\ schema.rules[1].name = "min"
    /\ schema.rules[1].arg = Str("now")
    /\ calls[c].prev # NoPrev
    /\ Finished(calls[c])
    /\ Len(calls[c].prev.reads) = 1
    /\ Len(calls[c].reads) = 1
    /\ compare(schema.kind, calls[c].value,
               now(schema.kind, calls[c].prev.reads[1], 0), 0) >= 0
    /\ compare(schema.kind, calls[c].value,
               now(schema.kind, calls[c].reads[1], 0), 0) < 0

\* C10: "now" is resolved when the rule runs: of two calls with the same
\* input on one min("now") schema, made at ticks that straddle the input,
\* the earlier passes and the later fails with the min code.
C10_NowResolvedPerRun ==
    \A c \in Callers :
        Straddled(c)
        => /\ calls[c].prev.pc = "done"
           /\ calls[c].prev.error = NoError
           /\ calls[c].pc = "done"
           /\ calls[c].error.code = "temporal." \o schema.kind \o ".min"

\* min("now") on a plainDate schema has passed "2021-02-15" at tick 0 and
\* rejected it at tick 1.
C10_Witness ==
    \E c \in Callers :
        /\ schema.kind = "plainDate"
        /\ schema.rules = <<[name |-> "min", arg |-> Str("now"), via |-> "min"]>>
        /\ calls[c].input = Str("2021-02-15")
        /\ calls[c].prev.pc = "done"
        /\ calls[c].prev.error = NoError
        /\ calls[c].prev.reads = <<0>>
        /\ calls[c].reads = <<1>>
        /\ calls[c].pc = "done"
        /\ calls[c].error.code = "temporal.plainDate.min"

\* C11: a comparison rule whose limit is the text "now" calls the kind's
\* now function, reads the clock and hands nothing to the parser on
\* plainDate, plainTime and plainDateTime; on every other kind it hands the
\* text "now" to the parser and reads no current moment for it (the rule
\* adds no clock read to those of the rules before it).
C11_NowOnlyWhereDefined ==
    \A c \in Callers :
        (/\ calls[c].ran # <<>>
         /\ LastRule(calls[c]).name \in {"min", "max", "gt", "lt"}
         /\ LastRule(calls[c]).arg = Str("now"))
        => IF schema.kind \in {"plainDate", "plainTime", "plainDateTime"}
           THEN /\ \A i \in 1..Len(calls[c].parsed) : calls[c].parsed[i] # "now"
                /\ calls[c].reads # <<>>
                /\ calls[c].pc # "thrown"
                /\ LastLimit(calls[c]).value.c
                   = now(schema.kind, LastTick(calls[c]), 0).c
                /\ LastRejected(calls[c])
                   => calls[c].error.ctx
                      = ToText(now(schema.kind, LastTick(calls[c]), 0))
           ELSE /\ calls[c].parsed # <<>>
                /\ calls[c].parsed[Len(calls[c].parsed)] = "now"
                /\ Len(calls[c].reads) < Len(calls[c].ran)

\* max("now") on an instant schema has run on a typed instant and handed
\* the text "now" to Temporal.Instant.from.
C11_Witness ==
    \E c \in Callers :
        /\ schema.kind = "instant"
        /\ Len(schema.rules) = 1
        /\ schema.rules[1].name = "max"
        /\ schema.rules[1].arg = Str("now")
        /\ calls[c].input = Instance("instant", 1)
        /\ calls[c].ran = <<"max">>
        /\ calls[c].parsed = <<"now">>

\* The limit of rule r is a text the kind's parser does not accept (and
\* that is not the "now" of a kind that has now).
UnparsableLimit(r) ==
    /\ r.name \in {"min", "max", "gt", "lt"}
    /\ IsString(r.arg)
    /\ ~(r.arg = Str("now") /\ schema.kind \in {"plainDate", "plainTime", "plainDateTime"})
    /\ Rejects(schema.kind, r.arg.s)

\* C12: a comparison rule whose text limit the kind's parser does not
\* accept is rejected when it is attached: no schema holds such a rule, and
\* no validate() call runs one.
C12_UnparsableLimitRejectedAtAttach ==
    /\ \A i \in 1..Len(schema.rules) : ~UnparsableLimit(schema.rules[i])
    /\ \A c \in Callers :
          calls[c].ran # <<>> => ~UnparsableLimit(LastRule(calls[c]))

\* C13: no exception leaves coerce, the base step or a rule's validate
\* function: every validate() call on a built schema ends with a result.
C13_NoExceptionEscapes ==
    \A c \in Callers :
        /\ calls[c].pc # "thrown"
        /\ calls[c].pc \in {"idle", "coerce", "presence", "base", "rules", "done"}

\* The last parts an error code of the core may have.
RuleOrBase ==
    {"base", "min", "max", "gt", "lt", "positive", "negative", "nonzero", "timezone"}

\* C14: every error a call carries is either the host's any.required (the
\* value is undefined on a required schema) or has the code
\* temporal.<kind>.<ruleOrBase> with the schema's kind and one of the nine
\* names, and that code is a key of the kind's message table.
C14_ErrorCodesFollowScheme ==
    \A c \in Callers :
        calls[c].error # NoError
        => \/ /\ calls[c].error.code = "any.required"
              /\ calls[c].value = Undefined
              /\ calls[c].presence = "required"
           \/ /\ \E r \in RuleOrBase :
                    calls[c].error.code = "temporal." \o schema.kind \o "." \o r
              /\ calls[c].error.code \in MessageTable(schema.kind)

\* A zoned date-time schema with min and timezone has rejected a value at
\* its second rule, under the code of the kind's extra rule.
C14_Witness ==
    \E c \in Callers :
        /\ schema.kind = "zonedDateTime"
        /\ calls[c].pc = "done"
        /\ calls[c].ran = <<"min", "timezone">>
        /\ calls[c].error.code = "temporal.zonedDateTime.timezone"

\* C15: when a comparison rule rejects a value, the error's limit is the
\* canonical text of the resolved limit: of the current moment for "now" on
\* a kind that has now, of the limit parsed from a text argument (for
\* "09:00" that is "09:00:00", not "09:00"), of the instance for a typed
\* argument.
C15_ContextIsResolvedLimitText ==
    \A c \in Callers :
        (Compared(calls[c]) /\ LastRejected(calls[c]))
        => LET arg  == LastRule(calls[c]).arg
               kind == schema.kind
               ctx  == calls[c].error.ctx
               current == arg = Str("now")
                          /\ kind \in {"plainDate", "plainTime", "plainDateTime"}
           IN  /\ current => ctx = ToText(now(kind, LastTick(calls[c]), 0))
               /\ (IsString(arg) /\ ~current)
                  => ctx = ToText(parse(kind, arg.s, 0).value)
               /\ ~IsString(arg) => ctx = ToText(arg)
               /\ (kind = "plainTime" /\ arg = Str("09:00")) => ctx = "09:00:00"

\* min("09:00") on a plain time schema has rejected a value and reports
\* the limit as 09:00:00.
C15_Witness ==
    \E c \in Callers :
        /\ schema.kind = "plainTime"
        /\ calls[c].pc = "done"
        /\ calls[c].ran = <<"min">>
        /\ schema.rules[1].arg = Str("09:00")
        /\ calls[c].error = Error("temporal.plainTime.min", "09:00:00")

\* The six comparison methods and the four comparison codes of a kind.
ComparisonMethods == {"min", "max", "gt", "lt", "gte", "lte"}

ComparisonCodes(kind) ==
    {"temporal." \o kind \o "." \o r : r \in {"min", "max", "gt", "lt"}}

\* C16: a schema of kind plainMonthDay, and of no other kind, has none of
\* min, max, gt, lt, gte, lte among its rule methods and none of their codes
\* in its message table; its rule table is empty. A plainMonthDay schema
\* therefore never holds a rule, and its calls end with no error,
\* any.required or the base code.
C16_NoComparatorNoComparisonRules ==
    /\ schema.status # "none"
       => /\ (RuleTable(schema.kind) \cap ComparisonMethods = {})
             <=> schema.kind = "plainMonthDay"
          /\ (MessageTable(schema.kind) \cap ComparisonCodes(schema.kind) = {})
             <=> schema.kind = "plainMonthDay"
          /\ schema.kind # "plainMonthDay"
             => /\ ComparisonMethods \subseteq RuleTable(schema.kind)
                /\ ComparisonCodes(schema.kind) \subseteq MessageTable(schema.kind)
    /\ schema.kind = "plainMonthDay"
       => /\ RuleTable(schema.kind) = {}
          /\ schema.rules = <<>>
          /\ schema.attached = <<>>
          /\ schema.status \in {"ok", "nomethod"}
          /\ \A c \in Callers :
                /\ calls[c].ran = <<>>
                /\ calls[c].error.code
                   \in {"", "any.required", "temporal.plainMonthDay.base"}

\* A rule method has been called on a plainMonthDay schema, which has none.
C16_Witness ==
    /\ schema.kind = "plainMonthDay"
    /\ schema.status = "nomethod"

\* A sign rule of a duration schema ran last in the call.
SignRuleRan(call) ==
    /\ call.ran # <<>>
    /\ LastRule(call).name \in {"positive", "negative", "nonzero"}

\* C17: a sign rule that ran on a duration d with sign s accepted d iff
\* s > 0 (positive), s < 0 (negative), s # 0 (nonzero); a rejection carries
\* the code temporal.duration.<rule>; the zero duration is rejected by all
\* three, PT60M by negative only and -PT1H by positive only.
C17_SignRulesFollowSign ==
    \A c \in Callers :
        SignRuleRan(calls[c])
        => LET name == LastRule(calls[c]).name
               s    == DurationSign(calls[c].value.c)
               ok   == LastAccepted(calls[c])
           IN  /\ schema.kind = "duration"
               /\ ok \/ LastRejected(calls[c])
               /\ s \in {0 - 1, 0, 1}
               /\ name = "positive" => (ok <=> s > 0)
               /\ name = "negative" => (ok <=> s < 0)
               /\ name = "nonzero"  => (ok <=> s # 0)
               /\ ~ok => calls[c].error = Error("temporal.duration." \o name, "")
               /\ calls[c].input = Str("PT0S") => ~ok
               /\ calls[c].input = Str("PT60M") => (ok <=> name # "negative")
               /\ calls[c].input = Str("-PT1H") => (ok <=> name # "positive")

\* nonzero() has rejected the zero duration on a schema that also has
\* max: the sign rule ran second.
C17_Witness ==
    \E c \in Callers :
        /\ schema.kind = "duration"
        /\ calls[c].input = Str("PT0S")
        /\ calls[c].ran = <<"max", "nonzero">>
        /\ calls[c].pc = "done"
        /\ calls[c].error.code = "temporal.duration.nonzero"

\* The timezone rule ran last in the call.
TimezoneRuleRan(call) ==
    /\ call.ran # <<>>
    /\ LastRule(call).name = "timezone"

\* C18: timezone(n) that ran on a zoned date-time z accepted z iff z's
\* zone identifier is the very text n; a rejection carries the code
\* temporal.zonedDateTime.timezone and the name n. timezone("utc") rejects
\* a value in UTC, timezone("UTC") accepts it.
C18_TimezoneIsExactMatch ==
    \A c \in Callers :
        TimezoneRuleRan(calls[c])
        => LET n  == LastRule(calls[c]).arg.s
               ok == LastAccepted(calls[c])
           IN  /\ schema.kind = "zonedDateTime"
               /\ ok \/ LastRejected(calls[c])
               /\ ok <=> calls[c].value.s = n
               /\ ~ok => calls[c].error = Error("temporal.zonedDateTime.timezone", n)
               /\ n = "utc" => ~ok
               /\ calls[c].input = Instance("zonedDateTime", 1) => (ok <=> n = "UTC")

\* timezone("utc") has rejected a value whose zone is UTC.
C18_Witness ==
    \E c \in Callers :
        /\ schema.kind = "zonedDateTime"
        /\ calls[c].value.s = "UTC"
        /\ calls[c].ran = <<"timezone">>
        /\ calls[c].pc = "done"
        /\ calls[c].error = Error("temporal.zonedDateTime.timezone", "utc")

\* The rule entry the i-th accepted rule-method call asked for.
Attachment(i) ==
    [name |-> RuleNameOf(schema.attached[i].method), arg |-> schema.attached[i].arg]

\* C19 as stated: describe() reports the kind's name and one entry per
\* attachment, in attachment order, each with its literal argument, also
\* when a rule name is attached twice.
C19_DescribeListsEveryAttachment ==
    schema.status # "none"
    => /\ Describe(schema).type = schema.kind
       /\ Len(Describe(schema).rules) = Len(schema.attached)
       /\ \A i \in 1..Len(schema.attached) : Describe(schema).rules[i] = Attachment(i)

\* The i-th attachment is the last one of its rule name.
LastOfName(i) ==
    \A j \in (i + 1)..Len(schema.attached) : Attachment(j).name # Attachment(i).name

\* The attachments that are the last of their rule name, in attachment
\* order.
LastAttachments ==
    SelectSeq([i \in 1..Len(schema.attached) |-> i], LAMBDA i : LastOfName(i))

\* C19, amended: describe() reports the kind's name and one entry per
\* attached rule name, in attachment order, with the literal argument of
\* the last attachment of that name: an attachment replaces an earlier one
\* of the same rule name (gte counts as min, lte as max), and n attachments
\* of n different rule names give n entries.
C19_DescribeListsLastOfEachName ==
    schema.status # "none"
    => /\ Describe(schema).type = schema.kind
       /\ Len(Describe(schema).rules) = Len(LastAttachments)
       /\ \A k \in 1..Len(LastAttachments) :
             Describe(schema).rules[k] = Attachment(LastAttachments[k])
       /\ (\A i \in 1..Len(schema.attached) : LastOfName(i))
          => Len(Describe(schema).rules) = Len(schema.attached)

\* gte and then min have been attached with different limits; the schema
\* describes one min rule, with the second limit.
C19_Witness ==
    /\ schema.status = "ok"
    /\ Len(schema.attached) = 2
    /\ schema.attached[1].method = "gte"
    /\ schema.attached[2].method = "min"
    /\ schema.attached[1].arg # schema.attached[2].arg
    /\ Len(Describe(schema).rules) = 1
    /\ Describe(schema).rules[1] = [name |-> "min", arg |-> schema.attached[2].arg]

\* The value the rules of the call are given: the input, or the instance
\* coerce parsed from it.
RuleInput(call) ==
    IF IsString(call.input)
    THEN parse(schema.kind, call.input.s, FreshId(0)).value
    ELSE call.input

\* A rule that does not throw reads the clock when its limit is the current
\* moment or the kind is duration.
ReadsClock(r) ==
    /\ r.name \in {"min", "max", "gt", "lt"}
    /\ \/ schema.kind = "duration"
       \/ r.arg = Str("now") /\ schema.kind \in {"plainDate", "plainTime", "plainDateTime"}

\* The clock tick the k-th rule of the schema ran at in the call (0 when it
\* read no clock).
TickOf(call, k) ==
    LET n == Cardinality({j \in 1..k : ReadsClock(schema.rules[j])})
    IN  IF ReadsClock(schema.rules[k]) /\ n <= Len(call.reads)
        THEN call.reads[n] ELSE 0

\* What a rule with the given name and argument, attached alone, does on
\* the call's rule input at clock tick `tick`, and whether that is to accept.
Alone(call, name, arg, tick) ==
    RuleValidate(schema.kind, name, RuleInput(call), arg, tick, FreshId(0))

Accepts(r) == ~r.thrown /\ r.errors = NoError

\* The k-th rule the schema holds, alone, at the tick it ran at in the call.
HeldAlone(call, k) ==
    Alone(call, schema.rules[k].name, schema.rules[k].arg, TickOf(call, k))

\* The call ended and accepted the value.
Accepted(call) == call.pc = "done" /\ call.error = NoError

\* C20 as stated: a finished call whose rules ran accepted the value iff
\* every attached rule (every accepted rule-method call), alone with the
\* same argument, accepts it. The clock tick of a rule alone is left open:
\* an accepted value is accepted by each attached rule at some tick up to
\* now, and a value every attached rule accepts at all those ticks is
\* accepted.
C20_AttachedRulesIndependent ==
    \A c \in Callers :
        (Finished(calls[c]) /\ calls[c].ran # <<>>)
        => /\ Accepted(calls[c])
              => \A i \in 1..Len(schema.attached) : \E tick \in 0..clock :
                    Accepts(Alone(calls[c], Attachment(i).name, Attachment(i).arg, tick))
           /\ (\A i \in 1..Len(schema.attached) : \A tick \in 0..clock :
                    Accepts(Alone(calls[c], Attachment(i).name, Attachment(i).arg, tick)))
              => Accepted(calls[c])

\* C20, amended: the rules the schema holds (the last attachment of each
\* rule name) are independent. Every rule that ran before the last one
\* accepts the value alone; the last rule that ran ended as it does alone,
\* on the same value and with the same error; and a finished call accepted
\* the value iff every held rule ran and accepts it alone.
C20_HeldRulesIndependent ==
    \A c \in Callers :
        calls[c].ran # <<>>
        => /\ \A k \in 1..(Len(calls[c].ran) - 1) : Accepts(HeldAlone(calls[c], k))
           /\ EndedAs(calls[c], HeldAlone(calls[c], Len(calls[c].ran)))
           /\ Finished(calls[c])
              => (Accepted(calls[c])
                  <=> \A k \in 1..Len(schema.rules) :
                         /\ k <= Len(calls[c].ran)
                         /\ Accepts(HeldAlone(calls[c], k)))

\* A plainDate schema with min and max has rejected, at max, a value that
\* min alone accepts and max alone rejects.
C20_Witness ==
    \E c \in Callers :
        /\ schema.kind = "plainDate"
        /\ Len(schema.rules) = 2
        /\ calls[c].ran = <<"min", "max">>
        /\ calls[c].pc = "done"
        /\ calls[c].error.code = "temporal.plainDate.max"
        /\ Accepts(HeldAlone(calls[c], 1))
        /\ ~Accepts(HeldAlone(calls[c], 2))

\* The value and the limit of the comparison rule that ran last are zoned
\* date-times in different zones that denote the same instant.
SameInstantOtherZone(call) ==
    /\ schema.kind = "zonedDateTime"
    /\ Compared(call)
    /\ LastLimit(call).value.s # call.value.s
    /\ LastLimit(call).value.c[1] = call.value.c[1]

\* C21: a zoned date-time is compared by its instant: when value and limit
\* are in different zones and denote the same instant, min and max accept
\* the value and gt and lt reject it, with their codes.
C21_ZonedComparedByInstant ==
    \A c \in Callers :
        SameInstantOtherZone(calls[c])
        => /\ LastComparison(calls[c]) = 0
           /\ LastRule(calls[c]).name \in {"min", "max"} => LastAccepted(calls[c])
           /\ LastRule(calls[c]).name \in {"gt", "lt"}
              => /\ LastRejected(calls[c])
                 /\ calls[c].error.code
                    = "temporal.zonedDateTime." \o LastRule(calls[c]).name

\* gt with the limit 2021-01-01T01:00+01:00[Europe/Berlin] has rejected the
\* value 2021-01-01T00:00+00:00[UTC], the same instant.
C21_Witness ==
    \E c \in Callers :
        /\ SameInstantOtherZone(calls[c])
        /\ calls[c].value.s = "UTC"
        /\ LastLimit(calls[c]).value.s = "Europe/Berlin"
        /\ calls[c].ran = <<"gt">>
        /\ calls[c].error.code = "temporal.zonedDateTime.gt"

\* Nothing has been built from the module's extensions or run on them.
NothingBuilt ==
    /\ schema = NoSchema
    /\ \A c \in Callers : calls[c] = IdleCall

\* C22: the Temporal check is the first thing the import does, and it is
\* done once. Without Temporal the import fails and nothing is ever built
\* or validated; a schema exists only after an import that found Temporal.
\* The outcome of the import changes in one step only, the import itself,
\* which goes by whether Temporal is defined; no later step (building,
\* coerce, validate, a rule) changes it or fails the module.
C22_TemporalCheckedOnceAtLoad ==
    /\ [](/\ ~runtime => (module \in {"unloaded", "failed"} /\ NothingBuilt)
          /\ module = "failed" => (~runtime /\ NothingBuilt)
          /\ module = "unloaded" => NothingBuilt
          /\ ~NothingBuilt => (module = "loaded" /\ runtime))
    /\ [][/\ module' # module
             => /\ module = "unloaded"
                /\ module' = (IF runtime THEN "loaded" ELSE "failed")
                /\ NothingBuilt /\ NothingBuilt'
          /\ runtime' = runtime]_vars

\* The import has failed for want of Temporal.
C22_Witness ==
    /\ ~runtime
    /\ module = "failed"
    /\ NothingBuilt

\* How a call ends: as a result (pc "done", with the error or the value)
\* or with an exception (pc "thrown").
Ended(pc, error, value) == [pc |-> pc, error |-> error, value |-> value]

RECURSIVE RulesAlone(_, _, _, _)
RECURSIVE RulesAloneWith(_, _, _, _, _)
\* The schema's rules from the k-th on, run in order on the value by a call
\* on its own; reads are the clock ticks the call read, from the ri-th on.
RulesAlone(k, value, reads, ri) ==
    IF k > Len(schema.rules) THEN Ended("done", NoError, value)
    ELSE RulesAloneWith(k, value, reads, ri,
             RuleValidate(schema.kind, schema.rules[k].name, value, schema.rules[k].arg,
                          IF ri <= Len(reads) THEN reads[ri] ELSE 0, FreshId(0)))

RulesAloneWith(k, value, reads, ri, r) ==
    IF r.thrown THEN Ended("thrown", NoError, r.value)
    ELSE IF r.errors # NoError THEN Ended("done", r.errors, r.value)
    ELSE RulesAlone(k + 1, r.value, reads, ri + Len(r.read))

\* The presence check, the allowed values, the base step and the rules.
CoercedAlone(call, value) ==
    IF value = Undefined
    THEN Ended("done", IF call.presence = "required"
                       THEN Error("any.required", "") ELSE NoError, value)
    ELSE IF call.allowNull /\ value = Null THEN Ended("done", NoError, value)
    ELSE IF validate(schema.kind, value).errors # NoError
    THEN Ended("done", validate(schema.kind, value).errors, value)
    ELSE RulesAlone(1, value, call.reads, 1)

CoerceAlone(call, r) ==
    IF r.errors # NoError THEN Ended("done", r.errors, r.value)
    ELSE CoercedAlone(call, r.value)

\* The result of validate() on the schema, as a function of the call's own
\* input, options and clock readings.
ResultAlone(call) ==
    IF ~call.convert \/ call.input = Undefined THEN CoercedAlone(call, call.input)
    ELSE CoerceAlone(call, coerce(schema.kind, call.input, FreshId(0)))

\* C23: when the calls of two callers on one schema interleave, each call
\* ends as the call with its input, options and clock readings ends on its
\* own; a step of a call changes that call only, and neither the schema and
\* its rule arguments nor the loaded module.
C23_CallsShareNoState ==
    /\ [](\A c \in Callers :
            Finished(calls[c])
            => Ended(calls[c].pc, calls[c].error, calls[c].value)
               = ResultAlone(calls[c]))
    /\ [][calls' # calls
          => /\ schema' = schema
             /\ module' = module
             /\ \E c \in Callers : \A d \in Callers \ {c} : calls'[d] = calls[d]]_vars

\* Both callers have finished a call on a schema with a rule: one ran a rule
\* on a parsed text while the other's call was past coerce.
C23_Witness ==
    /\ DOMAIN calls = TwoCallers
    /\ schema.rules # <<>>
    /\ Finished(calls["a"]) /\ Finished(calls["b"])
    /\ calls["a"].input # calls["b"].input
    /\ calls["a"].parsed # <<>>
    /\ calls["a"].ran # <<>>
    /\ calls["b"].ran # <<>>
    /\ calls["a"].reads # calls["b"].reads

\* The duration has no years, months or weeks: only days, hours, minutes
\* and seconds; its length in seconds.
FixedUnits(v) == v.tag = "duration" /\ v.c[1] = 0 /\ v.c[2] = 0 /\ v.c[3] = 0

FixedSeconds(v) == v.c[4] * 86400 + v.c[5] * 3600 + v.c[6] * 60 + v.c[7]

\* The last rule of the call compared two durations in fixed units.
FixedCompared(call) ==
    /\ schema.kind = "duration"
    /\ Compared(call)
    /\ FixedUnits(call.value)
    /\ FixedUnits(LastLimit(call).value)

\* The call is the second of two with one input on a duration schema of one
\* comparison rule, and value and limit are in fixed units.
FixedComparedTwice(call) ==
    /\ FixedCompared(call)
    /\ Len(schema.rules) = 1
    /\ call.prev # NoPrev

\* C24: the comparison of two durations in fixed units does not depend on
\* the date: it is the comparison of their lengths in seconds at every
\* clock tick, and the second of two calls with the same input, made on a
\* later date, ends as the first did.
C24_FixedUnitsIgnoreDate ==
    \A c \in Callers :
        /\ FixedCompared(calls[c])
           => /\ \A tick \in 0..MaxClock :
                    compare("duration", calls[c].value, LastLimit(calls[c]).value, tick)
                    = LastComparison(calls[c])
              /\ LastComparison(calls[c])
                 = Sign(FixedSeconds(calls[c].value)
                        - FixedSeconds(LastLimit(calls[c]).value))
        /\ FixedComparedTwice(calls[c])
           => /\ calls[c].prev.reads # calls[c].reads
              /\ calls[c].prev.pc = calls[c].pc
              /\ calls[c].prev.error = calls[c].error

\* PT60M has been validated twice against min(PT1H), on two dates, and
\* accepted in both calls: the lengths are equal.
C24_Witness ==
    \E c \in Callers :
        /\ FixedComparedTwice(calls[c])
        /\ calls[c].input = Str("PT60M")
        /\ schema.rules[1].name = "min"
        /\ LastLimit(calls[c]).value.c # calls[c].value.c
        /\ calls[c].prev.reads = <<0>>
        /\ calls[c].reads = <<1>>
        /\ Accepted(calls[c])

\* The last rule of the call compared durations of which one has years or
\* months.
CalendarCompared(call) ==
    /\ schema.kind = "duration"
    /\ Compared(call)
    /\ \E v \in {call.value, LastLimit(call).value} : v.c[1] # 0 \/ v.c[2] # 0

\* One month has been validated against min("P30D") twice, on 2021-01-31
\* and then on 2021-03-02.
MonthAgainstDaysTwice(call) ==
    /\ CalendarCompared(call)
    /\ Len(schema.rules) = 1
    /\ schema.rules[1].name = "min"
    /\ schema.rules[1].arg = Str("P30D")
    /\ call.value.c = <<0, 1, 0, 0, 0, 0, 0>>
    /\ call.prev.reads = <<0>>
    /\ call.reads = <<1>>

\* C25: a duration comparison with years or months reads the date when it
\* is made: the rule has read the clock in this call and accepts by the
\* lengths counted from that date. One month against min("P30D") on one
\* schema is rejected on 2021-01-31 (28 days) and accepted on 2021-03-02
\* (31 days).
C25_ReferenceDateReadPerComparison ==
    \A c \in Callers :
        /\ CalendarCompared(calls[c])
           => /\ calls[c].reads # <<>>
              /\ LastAccepted(calls[c])
                 <=> CheckOf(LastRule(calls[c]).name,
                             Sign(DurationTotal(calls[c].value.c,
                                                SubSeq(Moment(LastTick(calls[c])), 1, 3))
                                  - DurationTotal(LastLimit(calls[c]).value.c,
                                                  SubSeq(Moment(LastTick(calls[c])), 1, 3))))
        /\ MonthAgainstDaysTwice(calls[c])
           => /\ calls[c].prev.pc = "done"
              /\ calls[c].prev.error = Error("temporal.duration.min", "P30D")
              /\ Accepted(calls[c])

\* The two calls with one month against min("P30D") have been made.
C25_Witness ==
    \E c \in Callers :
        /\ MonthAgainstDaysTwice(calls[c])
        /\ calls[c].input = Str("P1M")
        /\ Finished(calls[c])

\* C26: within one validate() call every rule that resolves "now" compares
\* against the same current moment: on a kind that has now, the moments at
\* the clock ticks the call's rules read are all one moment.
C26_OneMomentPerCall ==
    \A c \in Callers :
        schema.kind \in {"plainDate", "plainTime", "plainDateTime"}
        => \A i, j \in 1..Len(calls[c].reads) :
              now(schema.kind, calls[c].reads[i], 0).c
              = now(schema.kind, calls[c].reads[j], 0).c

\* The rule that ran last in the call rejected the value.
RuleRejected(call) == call.ran # <<>> /\ LastRejected(call)

StringOrOwnKind(arg) == arg.tag = "string" \/ arg.tag = schema.kind

\* A comparison rule with a typed limit is the schema's only rule and has
\* run in the call.
TypedLimitRan(call) ==
    /\ Len(schema.rules) = 1
    /\ Compared(call)
    /\ schema.rules[1].arg.tag # "string"

AtRules(call) == call.pc = "rules" \/ call.ran # <<>>

\* C29: a rule's validate function only ever gets an instance of the
\* schema's kind. A call reaches its rules after coerce and the base step,
\* with an instance as its value; a call that has ended with a value that is
\* not an instance has run no rule, and unless the value is undefined or an
\* allowed null it has ended with the base error, with conversion on or off.
C29_RulesOnlySeeInstances ==
    \A c \in Callers :
        /\ AtRules(calls[c])
           => /\ calls[c].value.tag = schema.kind
              /\ RuleInput(calls[c]).tag = schema.kind
              /\ calls[c].pc \in {"rules", "done", "thrown"}
        /\ calls[c].pc \in {"coerce", "presence", "base"} => calls[c].ran = <<>>
        /\ (Finished(calls[c]) /\ calls[c].value.tag # schema.kind)
           => /\ calls[c].ran = <<>>
              /\ calls[c].pc = "done"
              /\ \/ calls[c].value = Undefined
                 \/ calls[c].value = Null /\ calls[c].allowNull
                 \/ calls[c].error = Error("temporal." \o schema.kind \o ".base", "")

\* On a schema with a rule, a call with conversion off has ended on a text
\* the kind parses with the base error, no rule having run.
C29_Witness ==
    \E c \in Callers :
        /\ schema.rules # <<>>
        /\ ~calls[c].convert
        /\ calls[c].input \in {Str(s) : s \in ValidTexts(schema.kind)}
        /\ calls[c].pc = "done"
        /\ calls[c].ran = <<>>
        /\ calls[c].error.code = "temporal." \o schema.kind \o ".base"

\* C30: a null input goes through coerce as it is, with nothing parsed, and
\* no rule runs on it. On a schema with allow(null) the call ends before the
\* base step with null and no error; on any other schema it ends at the base
\* step with temporal.<kind>.base, with conversion on or off. No call ends
\* with null and no error unless null is allowed.
C30_NullNeedsAllowance ==
    \A c \in Callers :
        /\ (calls[c].pc # "idle" /\ calls[c].input = Null)
           => /\ calls[c].value = Null
              /\ calls[c].parsed = <<>>
              /\ calls[c].ran = <<>>
              /\ calls[c].pc \in {"coerce", "presence", "base", "done"}
              /\ calls[c].allowNull => calls[c].pc # "base" /\ calls[c].error = NoError
              /\ (calls[c].pc = "done" /\ ~calls[c].allowNull)
                 => calls[c].error = Error("temporal." \o schema.kind \o ".base", "")
              /\ calls[c].pc # "done" => calls[c].error = NoError
        /\ (Finished(calls[c]) /\ calls[c].value = Null /\ calls[c].error = NoError)
           => calls[c].allowNull

\* A call with conversion on has ended on null with the base error, on a
\* schema that does not allow null.
C30_Witness ==
    \E c \in Callers :
        /\ calls[c].input = Null
        /\ calls[c].convert
        /\ ~calls[c].allowNull
        /\ calls[c].pc = "done"
        /\ calls[c].value = Null
        /\ calls[c].error.code = "temporal." \o schema.kind \o ".base"

=============================================================================
